---------------------------- MODULE Spec2Model ----------------------------
(***************************************************************************)
(* Model of the CPAP signal-processing pipeline of Sleep_Lab_Monitor       *)
(* (src/cpap_analysis.py): row validation, loading, ADC -> pressure ->     *)
(* flow conversion, breath detection, apnea counting, leakage and the      *)
(* metrics record; of the request validators (src/validate.py), of the     *)
(* patient store and its upload and update routes (src/server.py), and of  *)
(* the patient station's window (src/patient_interface.py).                *)
(*                                                                         *)
(* Text is modelled as sequences of one-character strings, so that         *)
(* splitting and the float()/int() parsers are computed, not assumed.      *)
(* Floating-point quantities are fixed-point integers:                     *)
(*   time      in 1/1000 s                                                 *)
(*   pressure  in 1/1000 Pa                                                *)
(*   flow      in 1e-6 m^3/s                                               *)
(***************************************************************************)
EXTENDS Integers, Sequences, FiniteSets, TLC

VARIABLES
    patient,      \* is_correct_data: the tokenized row under validation
    accepted,     \* is_correct_data: its return value (<<>> before the call)
    file,         \* load_patient: the lines of the input file
    pc,           \* flow_analysis: position in the code
    i,            \* load_patient / flow_analysis: loop index
    valid_data,   \* load_patient: header followed by the accepted rows
    time,         \* flow_analysis: time list
    flow_data,    \* flow_analysis: flow list
    err,          \* flow_analysis: the exception that ended it (<<>> if none)
    flow,         \* count_breaths: the flow series analysed
    pro,          \* count_breaths: prominence threshold
    d,            \* count_breaths: distance threshold
    calls,        \* count_breaths: the calls made so far, with their results
    t_vs_flow,    \* count_apnea: the [time, flow] pair analysed
    apnea,        \* count_apnea: its return value (<<>> before the call)
    recording,    \* get_metrics: the [time, flow] pair it is given
    input_file,   \* get_metrics: the path of the input file
    writable,     \* get_metrics: whether open(output_file, "w") succeeds
    leakage,      \* calculate_leakage: its return value and warning
    rate,         \* calculate_breath_rate_bpm: how the call ended
    metrics,      \* get_metrics: how the call ended
    disk,         \* get_metrics: the files written, by path
    analyses,     \* two analyses: input path and artifacts written, per analysis
    cwd_files,    \* two analyses: the files of the working directory, by path
    adc_calls,    \* ADC_to_pascal: the calls made so far, with their results
    cpap_value,   \* validate_cpap_data: the value under validation
    cpap_answer,  \* validate_cpap_data: its return value (<<>> before the call)
    in_data,      \* validate_input_data: the dictionary under validation
    in_answer,    \* validate_input_data: its return value (<<>> before the call)
    db,           \* the Patient collection, by MRN
    last_call,    \* add_patient_to_database: the last call and how it ended
    clock,        \* add_patient_to_database: number of calls made, the time
    form,         \* patient station: the text of the window's fields
    out_json,     \* generate_json_file: how the call ended (<<>> before it)
    station,      \* patient station: entry states, plot file, timer, last event
    handlers      \* two concurrent upload_patient requests: position and locals

rowVars    == <<patient, accepted>>
flowVars   == <<file, pc, i, valid_data, time, flow_data, err>>
breathVars == <<flow, pro, d, calls>>
apneaVars  == <<t_vs_flow, apnea>>
metricsVars == <<recording, input_file, writable, leakage, rate, metrics, disk>>
artifactVars == <<analyses, cwd_files>>
validateVars == <<cpap_value, cpap_answer, in_data, in_answer>>
dbVars     == <<db, last_call, clock>>
stationVars == <<form, out_json, station>>
otherVars  == <<metricsVars, artifactVars, adc_calls, validateVars, dbVars,
               stationVars, handlers>>
vars == <<patient, accepted, file, pc, i, valid_data, time, flow_data, err,
          flow, pro, d, calls, t_vs_flow, apnea,
          recording, input_file, writable, leakage, rate, metrics, disk,
          analyses, cwd_files, adc_calls,
          cpap_value, cpap_answer, in_data, in_answer, db, last_call, clock,
          form, out_json, station, handlers>>

(***************************************************************************)
(* Generic helpers.                                                        *)
(***************************************************************************)
RECURSIVE Pow10(_)
Pow10(n) == IF n <= 0 THEN 1 ELSE 10 * Pow10(n - 1)

\* Python slice s[lo:hi] of a 0-based list held as a 1-based sequence: a
\* negative bound counts from the end, and bounds are clamped, never an error.
SliceBound(s, b) ==
    IF b < 0 THEN (IF b + Len(s) < 0 THEN 0 ELSE b + Len(s))
    ELSE IF b > Len(s) THEN Len(s) ELSE b

PySlice(s, lo, hi) ==
    IF SliceBound(s, hi) <= SliceBound(s, lo) THEN <<>>
    ELSE SubSeq(s, SliceBound(s, lo) + 1, SliceBound(s, hi))

\* Python s[k] raises IndexError unless -len(s) <= k < len(s).
IndexOK(s, k) == -Len(s) <= k /\ k < Len(s)

PyGet(s, k) == IF k < 0 THEN s[k + Len(s) + 1] ELSE s[k + 1]

(***************************************************************************)
(* Characters and the Python text parsers used by the pipeline.            *)
(***************************************************************************)
Digits == {"0", "1", "2", "3", "4", "5", "6", "7", "8", "9"}

IsDigit(c) == c \in Digits

DigitVal(c) ==
    CASE c = "0" -> 0 [] c = "1" -> 1 [] c = "2" -> 2 [] c = "3" -> 3
      [] c = "4" -> 4 [] c = "5" -> 5 [] c = "6" -> 6 [] c = "7" -> 7
      [] c = "8" -> 8 [] c = "9" -> 9

WhiteSpace == {" ", "\t", "\r", "\n"}

Lower(c) ==
    CASE c = "N" -> "n" [] c = "A" -> "a" [] c = "I" -> "i" [] c = "F" -> "f"
      [] c = "E" -> "e" [] c = "T" -> "t" [] c = "Y" -> "y"
      [] OTHER -> c

LowerSeq(s) == [k \in 1..Len(s) |-> Lower(s[k])]

\* str.strip(): leading and trailing whitespace removed.
RECURSIVE LStrip(_)
LStrip(s) == IF s # <<>> /\ Head(s) \in WhiteSpace THEN LStrip(Tail(s)) ELSE s

RECURSIVE RStrip(_)
RStrip(s) ==
    IF s # <<>> /\ s[Len(s)] \in WhiteSpace
    THEN RStrip(SubSeq(s, 1, Len(s) - 1)) ELSE s

Strip(s) == RStrip(LStrip(s))

\* line.strip("\n"): only newline characters are removed.
RECURSIVE LStripNL(_)
LStripNL(s) == IF s # <<>> /\ Head(s) = "\n" THEN LStripNL(Tail(s)) ELSE s

RECURSIVE RStripNL(_)
RStripNL(s) ==
    IF s # <<>> /\ s[Len(s)] = "\n"
    THEN RStripNL(SubSeq(s, 1, Len(s) - 1)) ELSE s

StripNL(s) == RStripNL(LStripNL(s))

\* str.split(","): always at least one token; tokens never hold a comma.
RECURSIVE SplitFrom(_, _)
SplitFrom(s, cur) ==
    IF s = <<>> THEN <<cur>>
    ELSE IF Head(s) = "," THEN <<cur>> \o SplitFrom(Tail(s), <<>>)
    ELSE SplitFrom(Tail(s), Append(cur, Head(s)))

SplitComma(s) == SplitFrom(s, <<>>)

\* First index >= k of s that holds no digit (Len(s)+1 when there is none).
RECURSIVE SkipDigits(_, _)
SkipDigits(s, k) ==
    IF k <= Len(s) /\ IsDigit(s[k]) THEN SkipDigits(s, k + 1) ELSE k

\* Python accepts an underscore in a numeric literal only between two digits.
UnderscoresOK(s) ==
    \A k \in 1..Len(s) :
        s[k] = "_" => /\ k > 1 /\ k < Len(s)
                      /\ IsDigit(s[k - 1]) /\ IsDigit(s[k + 1])

DropUnderscores(s) == SelectSeq(s, LAMBDA c : c # "_")

HasSign(s) == s # <<>> /\ Head(s) \in {"+", "-"}

Unsigned(s) == IF HasSign(s) THEN Tail(s) ELSE s

IsNanWord(s) == LowerSeq(s) = <<"n", "a", "n">>

IsInfWord(s) ==
    LowerSeq(s) \in {<<"i", "n", "f">>,
                     <<"i", "n", "f", "i", "n", "i", "t", "y">>}

\* digits* [ "." digits* ] [ (e|E) [sign] digits+ ], at least one mantissa digit.
IsDecimal(s) ==
    LET a      == SkipDigits(s, 1)
        hasDot == a <= Len(s) /\ s[a] = "."
        b      == IF hasDot THEN SkipDigits(s, a + 1) ELSE a
        nd     == (a - 1) + (IF hasDot THEN b - (a + 1) ELSE 0)
        hasExp == b <= Len(s) /\ s[b] \in {"e", "E"}
        c      == IF hasExp
                  THEN (IF b + 1 <= Len(s) /\ s[b + 1] \in {"+", "-"}
                        THEN b + 2 ELSE b + 1)
                  ELSE b
        e      == IF hasExp THEN SkipDigits(s, c) ELSE b
    IN nd > 0 /\ (hasExp => e > c) /\ e = Len(s) + 1

\* float(data) does not raise ValueError.
FloatParses(tok) ==
    LET s == Strip(tok)
        u == Unsigned(DropUnderscores(s))
    IN /\ s # <<>>
       /\ UnderscoresOK(s)
       /\ IsNanWord(u) \/ IsInfWord(u) \/ IsDecimal(u)

\* int(data) does not raise ValueError: [sign] digits+, base 10.
IntParses(tok) ==
    LET s == Strip(tok)
        u == Unsigned(DropUnderscores(s))
    IN /\ s # <<>>
       /\ UnderscoresOK(s)
       /\ u # <<>>
       /\ SkipDigits(u, 1) = Len(u) + 1

RECURSIVE DigitsValue(_, _)
DigitsValue(s, acc) ==
    IF s = <<>> THEN acc ELSE DigitsValue(Tail(s), 10 * acc + DigitVal(Head(s)))

\* int(data) for a token that parses.
IntValue(tok) ==
    LET s == DropUnderscores(Strip(tok))
        v == DigitsValue(Unsigned(s), 0)
    IN IF HasSign(s) /\ Head(s) = "-" THEN -v ELSE v

\* float(data) for a token that parses, in thousandths (truncated); the
\* non-finite results are the strings "nan", "inf" and "-inf".
FloatValue(tok) ==
    LET s      == DropUnderscores(Strip(tok))
        neg    == HasSign(s) /\ Head(s) = "-"
        u      == Unsigned(s)
        a      == SkipDigits(u, 1)
        hasDot == a <= Len(u) /\ u[a] = "."
        b      == IF hasDot THEN SkipDigits(u, a + 1) ELSE a
        ip     == DigitsValue(SubSeq(u, 1, a - 1), 0)
        fr     == IF hasDot THEN SubSeq(u, a + 1, b - 1) ELSE <<>>
        fr3    == SubSeq(fr \o <<"0", "0", "0">>, 1, 3)
        m      == ip * 1000 + DigitsValue(fr3, 0)
        hasExp == b <= Len(u)
        eneg   == hasExp /\ b + 1 <= Len(u) /\ u[b + 1] = "-"
        c      == IF hasExp /\ b + 1 <= Len(u) /\ u[b + 1] \in {"+", "-"}
                  THEN b + 2 ELSE b + 1
        ex     == IF hasExp THEN DigitsValue(SubSeq(u, c, Len(u)), 0) ELSE 0
        v      == IF eneg THEN m \div Pow10(ex) ELSE m * Pow10(ex)
    IN IF IsNanWord(u) THEN "nan"
       ELSE IF IsInfWord(u) THEN (IF neg THEN "-inf" ELSE "inf")
       ELSE IF neg THEN -v ELSE v

(***************************************************************************)
(* is_correct_data (src/cpap_analysis.py:12-39).                           *)
(***************************************************************************)
RowLen == 7

NaNLiteral == <<"N", "a", "N">>

\* The for loop over the tokens, with its early returns.
RECURSIVE CheckTokens(_, _)
CheckTokens(row, k) ==
    IF k > Len(row) THEN TRUE
    ELSE IF ~FloatParses(row[k]) THEN FALSE
    ELSE IF row[k] = NaNLiteral THEN FALSE
    ELSE CheckTokens(row, k + 1)

\* Variant of is_correct_data without the test for the literal "NaN".
is_correct_data_no_nan_check(row) ==
    IF Len(row) # RowLen THEN FALSE
    ELSE \A k \in 1..Len(row) : FloatParses(row[k])

is_correct_data(row) ==
    IF Len(row) # RowLen THEN FALSE ELSE CheckTokens(row, 1)


(***************************************************************************)
(* Specification SpecRow: is_correct_data applied to one tokenized row.    *)
(***************************************************************************)
MaxTokens == 8

T_good  == <<"1", "6", "3", "8">>
T_frac  == <<"0", ".", "5">>
T_neg   == <<"-", "3">>
T_exp   == <<"1", "e", "3">>
T_space == <<" ", "7">>
T_cr    == <<"7", "\r">>
T_under == <<"1", "_", "0">>
T_nan   == <<"n", "a", "n">>
T_NaN   == <<"N", "a", "N">>
T_inf   == <<"i", "n", "f">>
T_empty == <<>>
T_word  == <<"x">>
T_dots  == <<"1", ".", "2", ".", "3">>
T_dot   == <<".">>
T_bexp  == <<"1", "e">>
T_bund  == <<"_", "1">>
T_sNaN  == <<" ", "N", "a", "N">>

Tokens == {T_good, T_frac, T_neg, T_exp, T_space, T_cr, T_under, T_nan,
           T_NaN, T_inf, T_empty, T_word, T_dots, T_dot, T_bexp, T_bund,
           T_sNaN}

GoodRow(n) == [k \in 1..n |-> T_good]

RowSamples ==
    {GoodRow(n) : n \in 0..MaxTokens}
      \cup UNION {{[GoodRow(n) EXCEPT ![p] = t] : p \in 1..n, t \in Tokens} :
                      n \in 1..MaxTokens}

\* The variables of the other specifications stay at a fixed idle value.
RowIdle == patient = <<>> /\ accepted = <<>>

FlowIdle ==
    /\ file = <<>> /\ pc = "idle" /\ i = 0 /\ valid_data = <<>>
    /\ time = <<>> /\ flow_data = <<>> /\ err = <<>>

BreathIdle == flow = <<>> /\ pro = 0 /\ d = 0 /\ calls = <<>>

ApneaIdle == t_vs_flow = <<>> /\ apnea = <<>>

MetricsIdle ==
    /\ recording = <<>> /\ input_file = <<>> /\ writable = FALSE
    /\ leakage = <<>> /\ rate = <<>> /\ metrics = <<>> /\ disk = <<>>

ArtifactIdle == analyses = <<>> /\ cwd_files = <<>>

AdcIdle == adc_calls = <<>>

ValidateIdle ==
    cpap_value = <<>> /\ cpap_answer = <<>> /\ in_data = <<>> /\ in_answer = <<>>

DbIdle == db = <<>> /\ last_call = <<>> /\ clock = 0

StationIdle == form = <<>> /\ out_json = <<>> /\ station = <<>>

RaceIdle == handlers = <<>>

OtherIdle ==
    /\ MetricsIdle /\ ArtifactIdle /\ AdcIdle /\ ValidateIdle /\ DbIdle
    /\ StationIdle /\ RaceIdle

InitRow ==
    /\ patient \in RowSamples
    /\ accepted = <<>>
    /\ FlowIdle /\ BreathIdle /\ ApneaIdle /\ OtherIdle

\* is_correct_data(line, patient) is called and returns.
Validate ==
    /\ accepted = <<>>
    /\ accepted' = <<is_correct_data(patient)>>
    /\ UNCHANGED <<patient, flowVars, breathVars, apneaVars, otherVars>>

NextRow == Validate

SpecRow == InitRow /\ [][NextRow]_vars

\* C1: is_correct_data accepts a tokenized row if and only if it has exactly
\* 7 tokens, every token parses as a floating-point number, and no token is
\* the literal string "NaN"; every other row is rejected.
C1_AcceptIff ==
    accepted # <<>> =>
        (accepted[1] <=>
            /\ Len(patient) = 7
            /\ \A k \in 1..Len(patient) : FloatParses(patient[k])
            /\ \A k \in 1..Len(patient) : patient[k] # <<"N", "a", "N">>)

\* A 7-token row of parsable tokens rejected only for a literal "NaN" that is
\* not its first token.
C1_Witness ==
    /\ accepted = <<FALSE>>
    /\ Len(patient) = 7
    /\ \A k \in 1..7 : FloatParses(patient[k])
    /\ patient[1] # <<"N", "a", "N">>
    /\ \E k \in 2..7 : patient[k] = <<"N", "a", "N">>


(***************************************************************************)
(* ADC_to_pascal and flow_calculation (src/cpap_analysis.py:71-118).       *)
(***************************************************************************)
\* Variant of ADC_to_pascal that clamps codes below the zero point to 0.
ADC_to_pascal_clamped(ADC_value) ==
    IF ADC_value < 1638 THEN 0
    ELSE LET slope == (980665 * 254) \div 100
             span  == 14745 - 1638
         IN (slope \div span) * (ADC_value - 1638)
                + ((slope % span) * (ADC_value - 1638)) \div span

\* pascal = 98.0665 * (25.4 / (14745 - 1638)) * (ADC_value - 1638), in 1/1000 Pa.
\* The quotient is taken in two parts, whole and fractional slope, so that
\* the products stay within 32 bits over the whole range of codes.
ADC_to_pascal(ADC_value) ==
    LET slope == (980665 * 254) \div 100
        span  == 14745 - 1638
    IN (slope \div span) * (ADC_value - 1638)
           + ((slope % span) * (ADC_value - 1638)) \div span

density == 1199     \* 1.199 kg/m^3, in 1/1000
d1 == 15            \* 15 * 10**-3 m, in mm
d2 == 12            \* 12 * 10**-3 m, in mm
PiE4 == 31416       \* np.pi, in 1/10000

\* With A = pi * (d/2)^2 the radicand of flow_calculation is
\*   A1^2 * (2/density) * (p1-p2) / ((A1/A2)^2 - 1)
\*     = pi^2 * d1^4 * d2^4 * (p1-p2) / (8 * density * (d1^4 - d2^4)),
\* which for d in mm is in (1e-6 m^3/s)^2 per Pa.
QSqPerPa ==
    (((PiE4 * PiE4) \div 100000) * ((d1^4 * d2^4) \div (d1^4 - d2^4)))
        \div (8 * density)

\* The argument handed to sqrt, pressures in 1/1000 Pa; it has the sign of
\* p1 - p2 because every other factor is positive.
SqrtArg(p1, p2) == (QSqPerPa * (p1 - p2)) \div 1000

RECURSIVE SqrtIter(_, _)
SqrtIter(n, x) ==
    LET y == (x + n \div x) \div 2 IN IF y >= x THEN x ELSE SqrtIter(n, y)

\* math.sqrt on a non-negative argument (integer part).
Sqrt(n) == IF n = 0 THEN 0 ELSE SqrtIter(n, n)

\* math.sqrt raises ValueError("math domain error") on a negative argument.
flow_calculation_raises(p1, p2) == SqrtArg(p1, p2) < 0

\* Q, in 1e-6 m^3/s, when sqrt does not raise.
flow_calculation(p1, p2) == Sqrt(SqrtArg(p1, p2))

\* The upstream pressure the branch of flow_analysis selects.
SelectedUpstream(p1_ins, p1_exp) == IF p1_ins >= p1_exp THEN p1_ins ELSE p1_exp

\* Variant of the branch that does not negate the expiratory flow.
SignedFlow_no_negation(p1_ins, p1_exp, p2) ==
    IF p1_ins >= p1_exp THEN flow_calculation(p1_ins, p2)
    ELSE flow_calculation(p1_exp, p2)

\* if p1_ins >= p1_exp: Q = flow_calculation(p1_ins, p2)
\* else:                Q = -flow_calculation(p1_exp, p2)
SignedFlow(p1_ins, p1_exp, p2) ==
    IF p1_ins >= p1_exp THEN flow_calculation(p1_ins, p2)
    ELSE -flow_calculation(p1_exp, p2)

(***************************************************************************)
(* Specification SpecFlow: flow_analysis(path) on one input file, with     *)
(* load_patient inlined (src/cpap_analysis.py:42-68, 121-155).             *)
(***************************************************************************)
MaxLines == 3

RECURSIVE JoinComma(_)
JoinComma(row) ==
    IF row = <<>> THEN <<>>
    ELSE IF Len(row) = 1 THEN row[1]
    ELSE row[1] \o <<",">> \o JoinComma(Tail(row))

Line(row) == JoinComma(row) \o <<"\n">>

T_0    == <<"0">>
T_1650 == <<"1", "6", "5", "0">>
T_1700 == <<"1", "7", "0", "0">>
T_1640 == <<"1", "6", "4", "0">>
T_1638f == <<"1", "6", "3", "8", ".", "0">>

\* time, constriction, inspiratory, expiratory, three unused fields
Rec(t, c, ins, exp) == <<t, c, ins, exp, T_0, T_0, T_0>>

L_ins     == Line(Rec(T_0, T_good, T_1700, T_1650))     \* inspiration
L_exp     == Line(Rec(T_frac, T_good, T_1650, T_1700))  \* expiration
L_zero    == Line(Rec(T_cr, T_1650, T_1650, T_1650))    \* no flow
L_dom_ins == Line(Rec(T_0, T_1700, T_1650, T_1640))     \* p_ins < p2
L_dom_exp == Line(Rec(T_0, T_1700, T_1640, T_1650))     \* p_exp < p2
L_float   == Line(Rec(T_0, T_1638f, T_1700, T_1650))    \* float-only ADC text
L_nantime == Line(Rec(T_nan, T_good, T_1700, T_1650))   \* time "nan"
L_short   == Line(<<T_0, T_good, T_1700>>)              \* missing values
L_word    == Line(Rec(T_0, T_word, T_1700, T_1650))     \* non-numeric
L_NaN     == Line(Rec(T_0, T_good, T_NaN, T_1650))      \* literal NaN
L_blank   == <<"\n">>                                   \* empty line

HeaderLine == Line(<<<<"t">>, <<"p">>, <<"i">>, <<"e">>, <<"a">>, <<"b">>, <<"c">>>>)

DataLines == {L_ins, L_exp, L_zero, L_dom_ins, L_dom_exp, L_float, L_nantime,
              L_short, L_word, L_NaN, L_blank}

RECURSIVE SeqsUpTo(_, _)
SeqsUpTo(S, n) ==
    IF n = 0 THEN {<<>>}
    ELSE LET shorter == SeqsUpTo(S, n - 1)
         IN shorter \cup {Append(q, x) : q \in shorter, x \in S}

Files == {<<>>} \cup {<<HeaderLine>> \o q : q \in SeqsUpTo(DataLines, MaxLines)}

InitFlow ==
    /\ file \in Files
    /\ pc = "load_header"
    /\ i = 0
    /\ valid_data = <<>>
    /\ time = <<>>
    /\ flow_data = <<>>
    /\ err = <<>>
    /\ RowIdle /\ BreathIdle /\ ApneaIdle /\ OtherIdle

\* keys = file.readline().strip("\n").split(","); valid_data.append(keys)
\* (readline returns "" at the end of an empty file).
ReadHeader ==
    /\ pc = "load_header"
    /\ valid_data' = <<SplitComma(StripNL(IF file = <<>> THEN <<>> ELSE file[1]))>>
    /\ i' = 0
    /\ pc' = "load_rows"
    /\ UNCHANGED <<file, time, flow_data, err, rowVars, breathVars, apneaVars, otherVars>>

\* Variant of the loop body that leaves the loop at the first rejected row.
LoadLine_stop_at_bad_row ==
    /\ pc = "load_rows"
    /\ i + 2 <= Len(file)
    /\ LET patient_data == SplitComma(StripNL(file[i + 2]))
       IN IF is_correct_data(patient_data)
          THEN valid_data' = Append(valid_data, patient_data) /\ i' = i + 1
          ELSE valid_data' = valid_data /\ i' = Len(file) - 1
    /\ UNCHANGED <<file, pc, time, flow_data, err, rowVars, breathVars, apneaVars, otherVars>>

\* One iteration of "for i, line in enumerate(file)": the line after the
\* header has i = 0 and is logged as line i+2.
LoadLine ==
    /\ pc = "load_rows"
    /\ i + 2 <= Len(file)
    /\ LET patient_data == SplitComma(StripNL(file[i + 2]))
       IN valid_data' = IF is_correct_data(patient_data)
                        THEN Append(valid_data, patient_data)
                        ELSE valid_data
    /\ i' = i + 1
    /\ UNCHANGED <<file, pc, time, flow_data, err, rowVars, breathVars, apneaVars, otherVars>>

\* load_patient returns valid_data; flow_analysis starts range(1, len(valid_data)).
LoadReturn ==
    /\ pc = "load_rows"
    /\ i + 2 > Len(file)
    /\ pc' = "analyse"
    /\ i' = 1
    /\ UNCHANGED <<file, valid_data, time, flow_data, err, rowVars, breathVars, apneaVars, otherVars>>

\* The exception an int() call raises on a token it cannot parse.  Neither
\* exception of flow_analysis carries the index of the record in its
\* arguments: "index" lists the record indices the exception names.
IntError(tok) ==
    [type |-> "ValueError", msg |-> "invalid literal for int() with base 10",
     literal |-> tok, index |-> <<>>]

DomainError ==
    [type |-> "ValueError", msg |-> "math domain error",
     literal |-> <<>>, index |-> <<>>]

\* One iteration of the loop of flow_analysis over valid_data[i].
AnalyseRecord ==
    /\ pc = "analyse"
    /\ i < Len(valid_data)
    /\ LET rec == valid_data[i + 1]
           bad == {k \in 2..4 : ~IntParses(rec[k])}
       IN /\ time' = Append(time, FloatValue(rec[1]))
          /\ IF bad # {}
             THEN /\ err' = <<IntError(rec[CHOOSE k \in bad : \A m \in bad : k <= m])>>
                  /\ pc' = "error"
                  /\ UNCHANGED <<i, flow_data>>
             ELSE LET p2     == ADC_to_pascal(IntValue(rec[2]))
                      p1_ins == ADC_to_pascal(IntValue(rec[3]))
                      p1_exp == ADC_to_pascal(IntValue(rec[4]))
                  IN IF flow_calculation_raises(SelectedUpstream(p1_ins, p1_exp), p2)
                     THEN /\ err' = <<DomainError>>
                          /\ pc' = "error"
                          /\ UNCHANGED <<i, flow_data>>
                     ELSE /\ flow_data' = Append(flow_data, SignedFlow(p1_ins, p1_exp, p2))
                          /\ i' = i + 1
                          /\ UNCHANGED <<pc, err>>
    /\ UNCHANGED <<file, valid_data, rowVars, breathVars, apneaVars, otherVars>>

\* return [time, flow_data]
AnalyseReturn ==
    /\ pc = "analyse"
    /\ i >= Len(valid_data)
    /\ pc' = "done"
    /\ UNCHANGED <<file, i, valid_data, time, flow_data, err, rowVars, breathVars, apneaVars, otherVars>>

NextFlow == ReadHeader \/ LoadLine \/ LoadReturn \/ AnalyseRecord \/ AnalyseReturn

SpecFlow == InitFlow /\ [][NextFlow]_vars

\* The acceptance rule as the specification states it.
RowOK(row) ==
    /\ Len(row) = 7
    /\ \A k \in 1..Len(row) : FloatParses(row[k])
    /\ \A k \in 1..Len(row) : row[k] # <<"N", "a", "N">>

Tokenized(line) == SplitComma(StripNL(line))

\* The rows of the file (header excluded) that the loop has gone through.
RowsRead ==
    LET rows == IF file = <<>> THEN <<>> ELSE Tail(file)
        n    == IF pc = "load_rows" THEN i ELSE Len(rows)
    IN [k \in 1..n |-> Tokenized(rows[k])]

\* C2: for every readable input file, load_patient never aborts because of a
\* bad row: it returns the header followed by exactly the rows that pass
\* validation, in their original relative order, and whether a row is
\* accepted does not depend on any neighbouring row being rejected.
C2_LoadKeepsExactlyValidRows ==
    pc # "load_header" =>
        /\ valid_data =
              <<Tokenized(IF file = <<>> THEN <<>> ELSE file[1])>>
                  \o SelectSeq(RowsRead, RowOK)
        /\ (pc = "load_rows" => err = <<>>)

\* The load has returned for a file with a rejected row between two accepted
\* rows, both of which were kept.
C2_Witness ==
    /\ pc = "analyse"
    /\ Len(file) = 4
    /\ RowOK(Tokenized(file[2]))
    /\ ~RowOK(Tokenized(file[3]))
    /\ RowOK(Tokenized(file[4]))
    /\ valid_data = <<Tokenized(file[1]), Tokenized(file[2]), Tokenized(file[4])>>

\* C3: for every input file whose accepted records cause no flow-equation
\* domain error, flow_analysis returns a time sequence and a flow sequence of
\* equal length, holding exactly one sample per record accepted by the
\* loader, in input order; no record that the loader accepted makes the
\* whole-file analysis abort.
C3_OneSamplePerAcceptedRecord ==
    /\ (pc = "error" => err[1].msg = "math domain error")
    /\ (pc = "done" =>
            /\ Len(time) = Len(valid_data) - 1
            /\ Len(flow_data) = Len(valid_data) - 1
            /\ \A k \in 1..Len(time) : time[k] = FloatValue(valid_data[k + 1][1]))

\* C4: for every accepted record, the flow sample is +Q(p_ins, p_constriction)
\* when p_ins >= p_exp and -Q(p_exp, p_constriction) otherwise, so the flow is
\* never negative when the inspiratory upstream pressure is the larger or
\* equal one and never positive when the expiratory one is strictly larger.
C4_FlowSignFollowsBranch ==
    \A k \in 1..Len(flow_data) :
        LET rec   == valid_data[k + 1]
            p_c   == ADC_to_pascal(IntValue(rec[2]))
            p_ins == ADC_to_pascal(IntValue(rec[3]))
            p_exp == ADC_to_pascal(IntValue(rec[4]))
        IN /\ p_ins >= p_exp =>
                 flow_data[k] >= 0 /\ flow_data[k] = flow_calculation(p_ins, p_c)
           /\ p_ins < p_exp =>
                 flow_data[k] <= 0 /\ flow_data[k] = -flow_calculation(p_exp, p_c)

\* An analysis has returned both a strictly positive (inspiration) and a
\* strictly negative (expiration) sample.
C4_Witness ==
    /\ pc = "done"
    /\ \E k \in 1..Len(flow_data) : flow_data[k] > 0
    /\ \E k \in 1..Len(flow_data) : flow_data[k] < 0

\* C5: when, for some accepted record, the selected upstream pressure is lower
\* than the constriction pressure, the analysis does not produce a flow value
\* for it but ends with a computation error that identifies the index of the
\* offending record.
C5_DomainErrorNamesRecord ==
    (pc = "error" /\ err[1].msg = "math domain error") =>
        /\ Len(flow_data) = i - 1
        /\ err[1].index = <<i>>


(***************************************************************************)
(* scipy.signal.find_peaks(x, height=h, prominence=pro, distance=d) as     *)
(* called by count_breaths (src/cpap_analysis.py:197).  Peaks are 0-based  *)
(* indices into x, as in the code.                                         *)
(***************************************************************************)
SetMin(S) == CHOOSE v \in S : \A w \in S : v <= w

SetMax(S) == CHOOSE v \in S : \A w \in S : v >= w

RECURSIVE SortedSeq(_)
SortedSeq(S) == IF S = {} THEN <<>> ELSE <<SetMin(S)>> \o SortedSeq(S \ {SetMin(S)})

\* Last index of the run of equal samples that starts at index l.
PlateauEnd(x, l) ==
    CHOOSE r \in l..(Len(x) - 1) :
        /\ \A m \in l..r : PyGet(x, m) = PyGet(x, l)
        /\ r = Len(x) - 1 \/ PyGet(x, r + 1) # PyGet(x, l)

\* Local maxima: a sample, or the middle (rounded down) of a run of equal
\* samples, strictly higher than the samples on both sides; a run touching
\* the first or the last sample holds no peak.
LocalMaxima(x) ==
    SortedSeq({(l + PlateauEnd(x, l)) \div 2 :
                  l \in {k \in 1..(Len(x) - 2) :
                            /\ PyGet(x, k - 1) < PyGet(x, k)
                            /\ PlateauEnd(x, k) <= Len(x) - 2
                            /\ PyGet(x, PlateauEnd(x, k) + 1) < PyGet(x, k)}})

\* height=h keeps the peaks with x[peak] >= h.
SelectByHeight(x, peaks, h) == SelectSeq(peaks, LAMBDA p : PyGet(x, p) >= h)

\* distance=dist: peaks are visited from the highest to the lowest (of equal
\* heights the later one first); a peak still kept removes every peak closer
\* than dist to it.  todo and keep are sets of positions in peaks.
RECURSIVE DistanceLoop(_, _, _, _, _)
DistanceLoop(x, peaks, dist, todo, keep) ==
    IF todo = {} THEN keep
    ELSE LET j == CHOOSE a \in todo : \A b \in todo :
                      \/ PyGet(x, peaks[a]) > PyGet(x, peaks[b])
                      \/ PyGet(x, peaks[a]) = PyGet(x, peaks[b]) /\ a >= b
             near == {k \in 1..Len(peaks) :
                         /\ k # j
                         /\ peaks[k] - peaks[j] < dist
                         /\ peaks[j] - peaks[k] < dist}
         IN DistanceLoop(x, peaks, dist, todo \ {j},
                         IF j \in keep THEN keep \ near ELSE keep)

RECURSIVE KeepPositions(_, _, _)
KeepPositions(peaks, keep, k) ==
    IF k > Len(peaks) THEN <<>>
    ELSE (IF k \in keep THEN <<peaks[k]>> ELSE <<>>)
             \o KeepPositions(peaks, keep, k + 1)

SelectByDistance(x, peaks, dist) ==
    KeepPositions(peaks,
                  DistanceLoop(x, peaks, dist, 1..Len(peaks), 1..Len(peaks)), 1)

\* The prominence of a peak: its height above the higher of the two lowest
\* samples found between the peak and, on each side, the nearest higher
\* sample (or the end of the series).
Prominence(x, peak) ==
    LET higher_left  == {m \in 0..(peak - 1) : PyGet(x, m) > PyGet(x, peak)}
        higher_right == {m \in (peak + 1)..(Len(x) - 1) : PyGet(x, m) > PyGet(x, peak)}
        left_base  == IF higher_left = {} THEN 0 ELSE SetMax(higher_left) + 1
        right_base == IF higher_right = {} THEN Len(x) - 1 ELSE SetMin(higher_right) - 1
        left_min   == SetMin({PyGet(x, m) : m \in left_base..peak})
        right_min  == SetMin({PyGet(x, m) : m \in peak..right_base})
    IN PyGet(x, peak) - (IF left_min > right_min THEN left_min ELSE right_min)

\* prominence=p keeps the peaks with prominence >= p.
SelectByProminence(x, peaks, p) ==
    SelectSeq(peaks, LAMBDA q : Prominence(x, q) >= p)

\* The conditions are applied in the order height, distance, prominence.
find_peaks(x, h, p, dist) ==
    SelectByProminence(x,
        SelectByDistance(x, SelectByHeight(x, LocalMaxima(x), h), dist), p)

(***************************************************************************)
(* count_breaths (src/cpap_analysis.py:177-217).                           *)
(***************************************************************************)
\* Variant of the pairwise test without check_time.
PairAccepted_no_check_time(flows, peaks, k) ==
    LET window == PySlice(flows, peaks[k + 1], peaks[k + 2])
        check_zero     == \E n \in 1..Len(window) : window[n] = 0
        check_negative == \E n \in 1..Len(window) : window[n] < 0
    IN check_zero \/ check_negative

\* The test of iteration k (0-based) of the loop over adjacent peaks.
PairAccepted(flows, peaks, k) ==
    LET window == PySlice(flows, peaks[k + 1], peaks[k + 2])
        check_zero     == \E n \in 1..Len(window) : window[n] = 0
        check_negative == \E n \in 1..Len(window) : window[n] < 0
        check_time     == PyGet(flows, peaks[k + 1] + 1) # 0
    IN check_time /\ (check_zero \/ check_negative)

\* Variant of the last-peak test that also accepts on a negative sample.
LastAccepted_or_negative(flows, peaks) ==
    LET window == PySlice(flows, peaks[Len(peaks)], -1)
    IN \E n \in 1..Len(window) : window[n] <= 0

\* if 0 in flow_data[peaks[-1]:-1]
LastAccepted(flows, peaks) ==
    LET window == PySlice(flows, peaks[Len(peaks)], -1)
    IN \E n \in 1..Len(window) : window[n] = 0

\* Variant of the loop that appends peaks[i+1] instead of peaks[i].
RECURSIVE PairLoop_appends_next(_, _, _)
PairLoop_appends_next(flows, peaks, k) ==
    IF k >= Len(peaks) - 1 THEN <<>>
    ELSE (IF PairAccepted(flows, peaks, k) THEN <<peaks[k + 2]>> ELSE <<>>)
             \o PairLoop_appends_next(flows, peaks, k + 1)

\* for i in range(length-1): ... valid_peaks.append(peaks[i])
RECURSIVE PairLoop(_, _, _)
PairLoop(flows, peaks, k) ==
    IF k >= Len(peaks) - 1 THEN <<>>
    ELSE (IF PairAccepted(flows, peaks, k) THEN <<peaks[k + 1]>> ELSE <<>>)
             \o PairLoop(flows, peaks, k + 1)

\* The return value (valid_peaks, len(valid_peaks)); raised holds the
\* exception when an element access flow_data[peaks[i]+1] is out of range.
count_breaths(flows, h, p, dist) ==
    LET peaks == find_peaks(flows, h, p, dist)
    IN IF Len(peaks) = 0
       THEN [valid_peaks |-> <<>>, count |-> 0, raised |-> <<>>]
       ELSE IF \E k \in 0..(Len(peaks) - 2) : ~IndexOK(flows, peaks[k + 1] + 1)
       THEN [valid_peaks |-> <<>>, count |-> 0, raised |-> <<"IndexError">>]
       ELSE LET valid_peaks ==
                    PairLoop(flows, peaks, 0)
                        \o (IF LastAccepted(flows, peaks)
                            THEN <<peaks[Len(peaks)]>> ELSE <<>>)
            IN [valid_peaks |-> valid_peaks, count |-> Len(valid_peaks),
                raised |-> <<>>]

(***************************************************************************)
(* Specification SpecBreath: count_breaths called on one flow series with  *)
(* two height thresholds in turn, distance and prominence held fixed.     *)
(***************************************************************************)
MaxLen == 6

FlowVals   == {-1, 0, 1, 2}
HeightVals == {1, 2}
ProVals    == {1, 2}
DistVals   == {1, 2}

InitBreath ==
    /\ flow \in SeqsUpTo(FlowVals, MaxLen)
    /\ pro \in ProVals
    /\ d \in DistVals
    /\ calls = <<>>
    /\ RowIdle /\ FlowIdle /\ ApneaIdle /\ OtherIdle

\* peaks, count = count_breaths(flow, h, pro, d)
CountBreaths ==
    /\ Len(calls) < 2
    /\ \E h \in HeightVals :
          calls' = Append(calls, [h      |-> h,
                                  peaks  |-> find_peaks(flow, h, pro, d),
                                  result |-> count_breaths(flow, h, pro, d)])
    /\ UNCHANGED <<flow, pro, d, rowVars, flowVars, apneaVars, otherVars>>

NextBreath == CountBreaths

SpecBreath == InitBreath /\ [][NextBreath]_vars

\* Sample k (0-based) of the analysed series.
Sample(k) == flow[k + 1]

\* C6: in count_breaths, every candidate peak peak_i other than the last is
\* accepted if and only if the sample immediately after peak_i is nonzero and
\* the window [peak_i, peak_{i+1}) contains a sample equal to 0 or a sample
\* below 0.
C6_PairwiseRule ==
    \A c \in 1..Len(calls) :
        \A n \in 1..(Len(calls[c].peaks) - 1) :
            LET peak_i    == calls[c].peaks[n]
                peak_next == calls[c].peaks[n + 1]
            IN (\E m \in 1..Len(calls[c].result.valid_peaks) :
                    calls[c].result.valid_peaks[m] = peak_i)
               <=> /\ Sample(peak_i + 1) # 0
                   /\ \E k \in peak_i..(peak_next - 1) :
                          Sample(k) = 0 \/ Sample(k) < 0

\* A call with two candidates whose first is accepted on a negative sample
\* alone: its window holds no zero.
C6_Witness ==
    /\ Len(calls) >= 1
    /\ Len(calls[1].peaks) = 2
    /\ calls[1].result.count >= 1
    /\ calls[1].result.valid_peaks[1] = calls[1].peaks[1]
    /\ \A k \in calls[1].peaks[1]..(calls[1].peaks[2] - 1) : Sample(k) # 0

\* C7: in count_breaths, the last candidate peak (also when it is the only
\* candidate) is accepted if and only if a sample equal to 0 occurs at an
\* index from that peak up to the second-to-last sample of the series; the
\* pairwise rule is never applied to it, and a negative excursion without an
\* exact zero does not accept it.
C7_LastPeakRule ==
    \A c \in 1..Len(calls) :
        Len(calls[c].peaks) > 0 =>
            LET last == calls[c].peaks[Len(calls[c].peaks)]
            IN (\E m \in 1..Len(calls[c].result.valid_peaks) :
                    calls[c].result.valid_peaks[m] = last)
               <=> \E k \in last..(Len(flow) - 2) : Sample(k) = 0

\* A single candidate followed by a negative sample before the last sample
\* and by no zero: it is rejected.
C7_Witness ==
    /\ Len(calls) >= 1
    /\ Len(calls[1].peaks) = 1
    /\ \E k \in calls[1].peaks[1]..(Len(flow) - 2) : Sample(k) < 0
    /\ calls[1].result.count = 0

\* C8: for every flow series, count_breaths returns a subsequence of the
\* candidate peak indices in strictly increasing index order together with a
\* count equal to the length of that subsequence; with zero candidate peaks
\* it returns the empty sequence and 0, and it never reads a sample outside
\* the series.
C8_ResultIsOrderedSubsequence ==
    \A c \in 1..Len(calls) :
        LET valid == calls[c].result.valid_peaks
        IN /\ calls[c].result.raised = <<>>
           /\ calls[c].result.count = Len(valid)
           /\ \A m \in 1..Len(valid) :
                  \E n \in 1..Len(calls[c].peaks) : calls[c].peaks[n] = valid[m]
           /\ \A m \in 1..(Len(valid) - 1) : valid[m] < valid[m + 1]
           /\ \A n \in 1..(Len(calls[c].peaks) - 1) :
                  /\ calls[c].peaks[n] < calls[c].peaks[n + 1]
                  /\ calls[c].peaks[n] + 1 < Len(flow)
           /\ (Len(calls[c].peaks) = 0 => valid = <<>> /\ calls[c].result.count = 0)

\* One call found no candidate, the other accepted both of its two candidates.
C8_Witness ==
    /\ Len(calls) = 2
    /\ Len(calls[1].peaks) = 0 /\ calls[1].result.count = 0
    /\ Len(calls[2].peaks) = 2 /\ calls[2].result.count = 2

\* C9: for every flow series and any two peak-height thresholds h1 <= h2 with
\* the distance and prominence thresholds held fixed, the breath count
\* returned by count_breaths with h1 is greater than or equal to the breath
\* count returned with h2.
C9_CountMonotoneInHeight ==
    \A a, b \in 1..Len(calls) :
        calls[a].h <= calls[b].h => calls[a].result.count >= calls[b].result.count


(***************************************************************************)
(* calculate_breath_times and count_apnea (src/cpap_analysis.py:240-288).  *)
(* t_vs_flow is <<time, flow>>; times are in 1/1000 s.                     *)
(***************************************************************************)
\* The defaults of count_breaths: h=11e-5, pro=2.5e-4 (in 1e-6 m^3/s), d=49.
h_default == 110
pro_default == 250
d_default == 49

\* The apnea threshold of count_apnea, in seconds.
apnea_gap == 10

calculate_breath_times(tvf) ==
    LET r == count_breaths(tvf[2], h_default, pro_default, d_default)
    IN IF r.count = 0 THEN <<>>
       ELSE [m \in 1..Len(r.valid_peaks) |-> PyGet(tvf[1], r.valid_peaks[m])]

\* Variant of the gap test with >= in place of >.
GapIsApnea_at_least(t0, t1) == (t1 - t0) >= apnea_gap * 1000

\* if (breath_times[i+1] - breath_times[i]) > 10
GapIsApnea(t0, t1) == (t1 - t0) > apnea_gap * 1000

\* for i in range(len(breath_times)-1): ... apnea_count += 1
RECURSIVE ApneaLoop(_, _)
ApneaLoop(breath_times, k) ==
    IF k >= Len(breath_times) - 1 THEN 0
    ELSE (IF GapIsApnea(PyGet(breath_times, k), PyGet(breath_times, k + 1))
          THEN 1 ELSE 0) + ApneaLoop(breath_times, k + 1)

count_apnea(tvf) ==
    LET breath_times == calculate_breath_times(tvf)
    IN IF breath_times = <<>> THEN 0 ELSE ApneaLoop(breath_times, 0)

(***************************************************************************)
(* Specification SpecApnea: count_apnea on a recording made of up to       *)
(* MaxPulses inhalation pulses sampled at a fixed period.                  *)
(***************************************************************************)
MaxPulses == 3

\* Samples from one pulse to the next: below, at and above the distance
\* threshold of 49 samples.
Spacings == {45, 50, 55}

\* Level the flow settles on after a pulse.
Baselines == {0, 50}

\* Sampling periods in 1/1000 s: 50 samples last 9 s or exactly 10 s.
Periods == {180, 200}

Pulse(spacing, base) == <<300, 100>> \o [k \in 1..(spacing - 2) |-> base]

RECURSIVE Pulses(_)
Pulses(n) ==
    IF n = 0 THEN {<<>>}
    ELSE {q \o Pulse(sp, b) : q \in Pulses(n - 1), sp \in Spacings, b \in Baselines}

Recordings ==
    UNION {{<<[k \in 1..(Len(q) + 2) |-> (k - 1) * dt], <<0>> \o q \o <<0>>>> :
               q \in Pulses(n), dt \in Periods} : n \in 0..MaxPulses}

InitApnea ==
    /\ t_vs_flow \in Recordings
    /\ apnea = <<>>
    /\ RowIdle /\ FlowIdle /\ BreathIdle /\ OtherIdle

\* apnea_count = count_apnea(t_vs_flow)
CountApnea ==
    /\ apnea = <<>>
    /\ apnea' = <<count_apnea(t_vs_flow)>>
    /\ UNCHANGED <<t_vs_flow, rowVars, flowVars, breathVars, otherVars>>

NextApnea == CountApnea

SpecApnea == InitApnea /\ [][NextApnea]_vars

\* The times of the accepted breaths of the analysed recording.
AcceptedBreathTimes ==
    LET valid == count_breaths(t_vs_flow[2], 110, 250, 49).valid_peaks
    IN [m \in 1..Len(valid) |-> t_vs_flow[1][valid[m] + 1]]

\* C10: count_apnea returns exactly the number of adjacent pairs of accepted
\* breath times whose difference is strictly greater than 10 seconds: a gap
\* of exactly 10 is not counted, and the result is 0 when there are zero or
\* one accepted breaths.
C10_ApneaCountsGapsOver10s ==
    apnea # <<>> =>
        /\ apnea[1] = Cardinality({k \in 1..(Len(AcceptedBreathTimes) - 1) :
                          AcceptedBreathTimes[k + 1] - AcceptedBreathTimes[k] > 10000})
        /\ (Len(AcceptedBreathTimes) <= 1 => apnea[1] = 0)

\* Three accepted breaths, one gap of exactly 10 s and one longer gap: one
\* apnea is counted.
C10_Witness ==
    /\ apnea = <<1>>
    /\ Len(AcceptedBreathTimes) = 3
    /\ \E k \in 1..2 : AcceptedBreathTimes[k + 1] - AcceptedBreathTimes[k] = 10000
    /\ \E k \in 1..2 : AcceptedBreathTimes[k + 1] - AcceptedBreathTimes[k] > 10000


(***************************************************************************)
(* calculate_duration, calculate_breath_rate_bpm, calculate_leakage and    *)
(* get_metrics (src/cpap_analysis.py:158-174, 220-237, 291-373).           *)
(* A call ends in a record [raised, value]: raised holds the exception     *)
(* that left the function (<<>> if none), value the returned value         *)
(* (<<>> if the call raised).                                              *)
(*   breath rate  in 1/1000 breaths per minute                             *)
(*   leakage      in 1e-9 litres                                           *)
(***************************************************************************)
Returned(v) == [raised |-> <<>>, value |-> <<v>>]

Raised(e) == [raised |-> <<e>>, value |-> <<>>]

\* Variant of calculate_duration that takes the last time as the duration.
calculate_duration_last_time(tvf) ==
    IF Len(tvf[1]) = 0 THEN Raised("IndexError")
    ELSE Returned(PyGet(tvf[1], -1))

\* time[-1] - time[0]; both element accesses fail on an empty list.
calculate_duration(tvf) ==
    IF Len(tvf[1]) = 0 THEN Raised("IndexError")
    ELSE Returned(PyGet(tvf[1], -1) - PyGet(tvf[1], 0))

\* breaths/duration * 60: dividing by the float 0.0 raises.
calculate_breath_rate_bpm(tvf) ==
    LET duration == calculate_duration(tvf)
        r        == count_breaths(tvf[2], h_default, pro_default, d_default)
    IN IF duration.raised # <<>> THEN duration
       ELSE IF r.raised # <<>> THEN Raised(r.raised[1])
       ELSE IF duration.value[1] = 0 THEN Raised("ZeroDivisionError")
       ELSE Returned((r.count * 60 * 1000 * 1000) \div duration.value[1])

\* Variant of the summand that takes the flow at the right end of the step.
LeakageTerm_right_endpoint(tvf, k) ==
    PyGet(tvf[2], k + 1) * (PyGet(tvf[1], k + 1) - PyGet(tvf[1], k))

\* flow[i] * dt[i], with dt = np.diff(time).
LeakageTerm(tvf, k) ==
    PyGet(tvf[2], k) * (PyGet(tvf[1], k + 1) - PyGet(tvf[1], k))

\* for i in range(len(flow) - 1): total_leakage += flow[i] * dt[i]
\* summed over i in lo..hi by halves, which keeps the evaluation shallow on
\* recordings of more than a hundred samples.
RECURSIVE LeakageLoop(_, _, _)
LeakageLoop(tvf, lo, hi) ==
    IF lo > hi THEN 0
    ELSE IF lo = hi THEN LeakageTerm(tvf, lo)
    ELSE LET mid == (lo + hi) \div 2
         IN LeakageLoop(tvf, lo, mid) + LeakageLoop(tvf, mid + 1, hi)

\* The returned total in litres, and whether the warning was logged.
calculate_leakage(tvf) ==
    LET total_leakage        == LeakageLoop(tvf, 0, Len(tvf[2]) - 2)
        total_leakage_liters == total_leakage * 1000
    IN [value |-> total_leakage_liters, warning |-> total_leakage_liters < 0]

\* os.path.basename: what follows the last "/".
basename(path) ==
    LET seps == {k \in 1..Len(path) : path[k] = "/"}
    IN IF seps = {} THEN path ELSE SubSeq(path, SetMax(seps) + 1, Len(path))

\* os.path.splitext(...)[0]: the name up to its last ".", unless only dots
\* come before that one.
splitext_root(name) ==
    LET dots == {k \in 1..Len(name) : name[k] = "."}
    IN IF dots = {} THEN name
       ELSE IF \A k \in 1..(SetMax(dots) - 1) : name[k] = "." THEN name
       ELSE SubSeq(name, 1, SetMax(dots) - 1)

JsonExt == <<".", "j", "s", "o", "n">>

\* output_file = os.path.splitext(os.path.basename(input_file))[0] + ".json"
output_file(path) == splitext_root(basename(path)) \o JsonExt

\* with open(output_file, "w") as f: json.dump(metrics, f, indent=4)
WriteFile(files, path, content) ==
    [q \in (DOMAIN files) \cup {path} |-> IF q = path THEN content ELSE files[q]]

\* How get_metrics ends, in the order of its statements.
get_metrics(tvf, path, can_write) ==
    LET duration        == calculate_duration(tvf)
        r               == count_breaths(tvf[2], h_default, pro_default, d_default)
        breath_rate_bpm == calculate_breath_rate_bpm(tvf)
    IN IF duration.raised # <<>> THEN duration
       ELSE IF r.raised # <<>> THEN Raised(r.raised[1])
       ELSE IF breath_rate_bpm.raised # <<>> THEN breath_rate_bpm
       ELSE IF ~can_write THEN Raised("OSError")
       ELSE Returned([duration        |-> duration.value[1],
                      breaths         |-> r.count,
                      breath_rate_bpm |-> breath_rate_bpm.value[1],
                      breath_times    |-> calculate_breath_times(tvf),
                      apnea_count     |-> count_apnea(tvf),
                      leakage         |-> calculate_leakage(tvf).value])

(***************************************************************************)
(* Specification SpecMetrics: the three entry points applied to one        *)
(* recording.  The recordings are short series with arbitrary times and    *)
(* flows, and pulse trains long enough for the default thresholds.         *)
(***************************************************************************)
MaxShort == 3

MaxBreaths == 2

ShortTimes == {0, 1000}

ShortFlows == {-2, 0, 3}

ShortRecordings ==
    UNION {{<<t, f>> : t \in [1..n -> ShortTimes], f \in [1..n -> ShortFlows]} :
               n \in 0..MaxShort}

\* Time of the first sample of a pulse train, in 1/1000 s.
Starts == {5000}

PulseRecordings ==
    UNION {{<<[k \in 1..(Len(q) + 2) |-> t0 + (k - 1) * dt], <<0>> \o q \o <<0>>>> :
               q \in Pulses(n), dt \in Periods, t0 \in Starts} : n \in 1..MaxBreaths}

MetricsRecordings == ShortRecordings \cup PulseRecordings

P_sample == <<"s", "/", "p", "2", ".", "t", "x", "t">>
P_bare   == <<"p", "2">>

InputFiles == {P_sample, P_bare}

InitMetrics ==
    /\ StationIdle /\ RaceIdle
    /\ recording \in MetricsRecordings
    /\ input_file \in InputFiles
    /\ writable \in BOOLEAN
    /\ leakage = <<>> /\ rate = <<>> /\ metrics = <<>> /\ disk = <<>>
    /\ RowIdle /\ FlowIdle /\ BreathIdle /\ ApneaIdle /\ ArtifactIdle /\ AdcIdle
    /\ ValidateIdle /\ DbIdle

\* leakage = calculate_leakage(t_vs_flow)
CalculateLeakage ==
    /\ leakage = <<>>
    /\ leakage' = <<calculate_leakage(recording)>>
    /\ UNCHANGED <<recording, input_file, writable, rate, metrics, disk,
                   rowVars, flowVars, breathVars, apneaVars, artifactVars,
                   adc_calls, validateVars, dbVars, stationVars, handlers>>

\* breath_rate = calculate_breath_rate_bpm(t_vs_flow)
CalculateBreathRate ==
    /\ rate = <<>>
    /\ rate' = <<calculate_breath_rate_bpm(recording)>>
    /\ UNCHANGED <<recording, input_file, writable, leakage, metrics, disk,
                   rowVars, flowVars, breathVars, apneaVars, artifactVars,
                   adc_calls, validateVars, dbVars, stationVars, handlers>>

\* metrics = get_metrics(t_vs_flow, path)
GetMetrics ==
    /\ metrics = <<>>
    /\ \E out \in {get_metrics(recording, input_file, writable)} :
          /\ metrics' = <<out>>
          /\ disk' = IF out.raised = <<>>
                     THEN WriteFile(disk, output_file(input_file), out.value[1])
                     ELSE disk
    /\ UNCHANGED <<recording, input_file, writable, leakage, rate,
                   rowVars, flowVars, breathVars, apneaVars, artifactVars,
                   adc_calls, validateVars, dbVars, stationVars, handlers>>

NextMetrics == CalculateLeakage \/ CalculateBreathRate \/ GetMetrics

SpecMetrics == InitMetrics /\ [][NextMetrics]_vars

\* The left-endpoint product of the k-th pair of consecutive samples of the
\* recording, flow[k] * (time[k+1] - time[k]), counting pairs from 1.
LeftProduct(k) == recording[2][k] * (recording[1][k + 1] - recording[1][k])

\* Sum of the left-endpoint products of the pairs lo..hi.
RECURSIVE SumLeftProducts(_, _)
SumLeftProducts(lo, hi) ==
    IF lo > hi THEN 0
    ELSE IF lo = hi THEN LeftProduct(lo)
    ELSE SumLeftProducts(lo, (lo + hi) \div 2)
             + SumLeftProducts((lo + hi) \div 2 + 1, hi)

\* C11: calculate_leakage returns 1000 times the sum, over the consecutive
\* sample pairs, of flow[i] * (time[i+1] - time[i]); the last flow sample is
\* not used; an all-zero flow gives exactly 0; a negative total is returned
\* unchanged.
C11_LeakageIsLeftEndpointSum ==
    leakage # <<>> =>
        /\ leakage[1].value = 1000 * SumLeftProducts(1, Len(recording[2]) - 1)
        /\ ((\A k \in 1..Len(recording[2]) : recording[2][k] = 0)
               => leakage[1].value = 0)
        /\ (SumLeftProducts(1, Len(recording[2]) - 1) < 0
               => leakage[1].value < 0 /\ leakage[1].warning)

\* A negative total came back from a recording whose last flow sample is
\* positive.
C11_Witness ==
    /\ leakage # <<>>
    /\ leakage[1].value < 0
    /\ Len(recording[2]) = 3
    /\ recording[2][3] > 0

\* The accepted peaks of the recording given to get_metrics, as indices
\* counted from 0.
AcceptedPeaks ==
    count_breaths(recording[2], h_default, pro_default, d_default).valid_peaks

\* C12: for a recording of positive duration, the record returned by
\* get_metrics is consistent: duration is the last time minus the first, the
\* breath count is the number of breath times, the breath times are the
\* times of the accepted peaks in order, the rate is count / duration * 60,
\* and the apnea count is the number of gaps over 10 s between those same
\* breath times.
C12_MetricsRecordConsistent ==
    (/\ metrics # <<>>
     /\ metrics[1].raised = <<>>
     /\ recording[1][Len(recording[1])] - recording[1][1] > 0) =>
        LET m  == metrics[1].value[1]
            bt == m.breath_times
        IN /\ m.duration = recording[1][Len(recording[1])] - recording[1][1]
           /\ m.breaths = Len(bt)
           /\ Len(bt) = Len(AcceptedPeaks)
           /\ \A k \in 1..Len(bt) : bt[k] = recording[1][AcceptedPeaks[k] + 1]
           /\ \A k \in 1..(Len(bt) - 1) : AcceptedPeaks[k] < AcceptedPeaks[k + 1]
           /\ m.breath_rate_bpm = (m.breaths * 60 * 1000 * 1000) \div m.duration
           /\ m.apnea_count =
                  Cardinality({k \in 1..(Len(bt) - 1) : bt[k + 1] - bt[k] > 10000})

\* A returned record with two breaths more than 10 s apart, from a
\* recording that does not start at time 0.
C12_Witness ==
    /\ metrics # <<>>
    /\ metrics[1].raised = <<>>
    /\ recording[1][1] > 0
    /\ metrics[1].value[1].breaths = 2
    /\ metrics[1].value[1].apnea_count = 1
    /\ metrics[1].value[1].breath_rate_bpm > 0

\* The recording has at least one sample and its first and last times are
\* equal.
ZeroDuration ==
    /\ Len(recording[1]) >= 1
    /\ recording[1][Len(recording[1])] = recording[1][1]

\* C13: when the recording spans zero duration (one sample, or equal first
\* and last times), calculate_breath_rate_bpm ends in a defined outcome, a
\* returned sentinel or an error of its own naming the zero duration, and
\* never in the division-by-zero exception of the arithmetic.
C13_ZeroDurationDefinedOutcome ==
    (rate # <<>> /\ ZeroDuration) => rate[1].raised # <<"ZeroDivisionError">>

\* C14: whenever the metrics can be computed, get_metrics returns the
\* record, whether or not the JSON file can be written; a failed write is
\* also reported to the caller.
C14_RecordReturnedDespiteWriteFailure ==
    (/\ metrics # <<>>
     /\ calculate_breath_rate_bpm(recording).raised = <<>>) =>
        /\ metrics[1].value # <<>>
        /\ (~writable => metrics[1].raised # <<>>)

(***************************************************************************)
(* Specification SpecArtifacts: several analyses of distinct input files   *)
(* in one working directory, their steps interleaved.  An analysis plots   *)
(* the recording (plot_t_vs_flow, src/cpap_analysis.py:376-404) and saves  *)
(* its metrics (get_metrics, src/cpap_analysis.py:369-371).  The content   *)
(* of an artifact is named by its kind and the input file it came from.    *)
(***************************************************************************)
MaxAnalyses == 2

\* img_path = "flow_plot.jpg"
img_path == <<"f", "l", "o", "w", "_", "p", "l", "o", "t", ".", "j", "p", "g">>

P_a_p == <<"a", "/", "p", ".", "t", "x", "t">>
P_b_p == <<"b", "/", "p", ".", "t", "x", "t">>
P_a_q == <<"a", "/", "q", ".", "t", "x", "t">>
P_p   == <<"p", ".", "t", "x", "t">>

AnalysedFiles == {P_a_p, P_b_p, P_a_q, P_p}

PlotOf(path) == [kind |-> "plot", of |-> path]

MetricsOf(path) == [kind |-> "metrics", of |-> path]

InitArtifacts ==
    /\ StationIdle /\ RaceIdle
    /\ analyses \in {a \in [1..MaxAnalyses ->
                              [path : AnalysedFiles, plot : {<<>>}, json : {<<>>}]] :
                        \A m, n \in 1..MaxAnalyses : m # n => a[m].path # a[n].path}
    /\ cwd_files = <<>>
    /\ RowIdle /\ FlowIdle /\ BreathIdle /\ ApneaIdle /\ MetricsIdle /\ AdcIdle
    /\ ValidateIdle /\ DbIdle

\* plot_t_vs_flow: plt.savefig(img_path, dpi=300); return img_path
PlotFlow(n) ==
    /\ analyses[n].plot = <<>>
    /\ cwd_files' = WriteFile(cwd_files, img_path, PlotOf(analyses[n].path))
    /\ analyses' = [analyses EXCEPT ![n].plot = <<img_path>>]
    /\ UNCHANGED <<rowVars, flowVars, breathVars, apneaVars, metricsVars,
                   adc_calls, validateVars, dbVars, stationVars, handlers>>

\* get_metrics: open(output_file, "w"); json.dump(metrics, f, indent=4)
SaveMetrics(n) ==
    /\ analyses[n].json = <<>>
    /\ cwd_files' = WriteFile(cwd_files, output_file(analyses[n].path),
                              MetricsOf(analyses[n].path))
    /\ analyses' = [analyses EXCEPT ![n].json = <<output_file(analyses[n].path)>>]
    /\ UNCHANGED <<rowVars, flowVars, breathVars, apneaVars, metricsVars,
                   adc_calls, validateVars, dbVars, stationVars, handlers>>

NextArtifacts ==
    \E n \in 1..MaxAnalyses : PlotFlow(n) \/ SaveMetrics(n)

SpecArtifacts == InitArtifacts /\ [][NextArtifacts]_vars

\* Every analysis has written both of its artifacts.
AllFinished ==
    \A n \in DOMAIN analyses : analyses[n].plot # <<>> /\ analyses[n].json # <<>>

\* C15: after all analyses of distinct input files have finished, in any
\* interleaving, the metrics file and the plot image of each analysis hold
\* that analysis's own result: no analysis has overwritten an artifact of
\* another.
C15_ArtifactsHoldOwnResults ==
    (analyses # <<>> /\ AllFinished) =>
        \A n \in DOMAIN analyses :
            /\ cwd_files[analyses[n].plot[1]] = PlotOf(analyses[n].path)
            /\ cwd_files[analyses[n].json[1]] = MetricsOf(analyses[n].path)

(***************************************************************************)
(* Specification SpecADC: ADC_to_pascal (src/cpap_analysis.py:71-86)       *)
(* called on one code and then on a second one: its successor, the zero    *)
(* point or the top of the sensor range.                                   *)
(***************************************************************************)
MaxCode == 16383

\* The codes of a 14-bit converter and as many below zero as lie below the
\* top of the sensor range.
AdcCodes == (1638 - MaxCode)..MaxCode

SecondCodes(code) == {code + 1, 1638, 14745} \cap AdcCodes

InitADC ==
    /\ StationIdle /\ RaceIdle
    /\ adc_calls = <<>>
    /\ RowIdle /\ FlowIdle /\ BreathIdle /\ ApneaIdle /\ MetricsIdle /\ ArtifactIdle
    /\ ValidateIdle /\ DbIdle

\* pascal = ADC_to_pascal(ADC_value)
Convert ==
    /\ Len(adc_calls) < 2
    /\ \E code \in (IF adc_calls = <<>> THEN AdcCodes
                    ELSE SecondCodes(adc_calls[1].code)) :
           adc_calls' = Append(adc_calls,
                               [code |-> code, pascal |-> ADC_to_pascal(code)])
    /\ UNCHANGED <<rowVars, flowVars, breathVars, apneaVars, metricsVars,
                   artifactVars, validateVars, dbVars, stationVars, handlers>>

NextADC == Convert

SpecADC == InitADC /\ [][NextADC]_vars

\* C16: ADC_to_pascal maps code 1638 to exactly 0 and is strictly
\* increasing over the integer codes, with no clamping: a code below 1638
\* gives a negative pressure and a code above the top of the sensor range
\* (14745) a pressure above the one of 14745.
C16_AdcLinearStrictlyIncreasing ==
    /\ \A k \in 1..Len(adc_calls) :
           /\ adc_calls[k].code = 1638 => adc_calls[k].pascal = 0
           /\ adc_calls[k].code < 1638 => adc_calls[k].pascal < 0
           /\ adc_calls[k].code > 1638 => adc_calls[k].pascal > 0
    /\ \A j, k \in 1..Len(adc_calls) :
           adc_calls[j].code < adc_calls[k].code
               => adc_calls[j].pascal < adc_calls[k].pascal

\* A negative code and its successor have been converted, to two distinct
\* negative pressures.
C16_Witness ==
    /\ Len(adc_calls) = 2
    /\ adc_calls[1].code < 0
    /\ adc_calls[2].code = adc_calls[1].code + 1
    /\ adc_calls[1].pascal < adc_calls[2].pascal
    /\ adc_calls[2].pascal < 0

(***************************************************************************)
(* validate_cpap_data and validate_input_data (src/validate.py).           *)
(* A Python scalar is a record of its type and its numeric or string       *)
(* value.  A dictionary of the request is a record whose fields hold <<>>  *)
(* for a missing key and <<v>> for a key with value v.  A return value is  *)
(* True or a message.                                                      *)
(***************************************************************************)
PyInt(n) == [type |-> "int", num |-> n, str |-> ""]

PyBool(b) == [type |-> "bool", num |-> IF b THEN 1 ELSE 0, str |-> ""]

PyFloat(n) == [type |-> "float", num |-> n, str |-> ""]

PyStr(text) == [type |-> "str", num |-> 0, str |-> text]

PyNone == [type |-> "NoneType", num |-> 0, str |-> ""]

\* isinstance(v, int): bool is a subclass of int, True is 1 and False is 0.
isinstance_int(v) == v.type \in {"int", "bool"}

\* isinstance(v, str)
isinstance_str(v) == v.type = "str"

PyTrue == [ok |-> TRUE, msg |-> ""]

Message(m) == [ok |-> FALSE, msg |-> m]

\* Variant of validate_cpap_data with the upper limit excluded.
validate_cpap_data_open_upper(value) ==
    IF ~isinstance_int(value)
    THEN Message("The CPAP entry must be an integer.")
    ELSE IF ~(4 <= value.num /\ value.num < 25)
    THEN Message("CPAP value out of range. Must be between 4 and 25 inclusive.")
    ELSE PyTrue

validate_cpap_data(value) ==
    IF ~isinstance_int(value)
    THEN Message("The CPAP entry must be an integer.")
    ELSE IF ~(4 <= value.num /\ value.num <= 25)
    THEN Message("CPAP value out of range. Must be between 4 and 25 inclusive.")
    ELSE PyTrue

\* The body of the loop over expected_keys, for one key.
CheckExpectedKey(dict, key) ==
    IF dict[key] = <<>>
    THEN Message("The " \o key \o " was not found.")
    ELSE IF ~isinstance_int(dict[key][1])
    THEN Message("Invalid type for key '" \o key \o "'.")
    ELSE PyTrue

required_data_keys ==
    <<"cpap_pressure", "breathing_rate", "apnea_count", "flow_image_base64">>

\* The body of the loop over in_data["data"], for one entry.
CheckEntry(entry) ==
    IF entry.type # "dict"
    THEN Message("Each entry in 'data' must be a dictionary.")
    ELSE LET missing == {k \in 1..Len(required_data_keys) :
                             required_data_keys[k] \notin entry.keys}
         IN IF missing = {} THEN PyTrue
            ELSE Message("Missing key '" \o required_data_keys[SetMin(missing)]
                             \o "' in data entry.")

\* for entry in in_data["data"], returning at the first failing entry.
RECURSIVE CheckEntries(_, _)
CheckEntries(entries, k) ==
    IF k > Len(entries) THEN PyTrue
    ELSE IF CheckEntry(entries[k]) # PyTrue THEN CheckEntry(entries[k])
    ELSE CheckEntries(entries, k + 1)

\* Variant of validate_input_data that checks the name before mrn and room.
validate_input_data_name_first(dict) ==
    IF dict.name # <<>> /\ ~isinstance_str(dict.name[1])
    THEN Message("Invalid type for key 'name'. Expected str.")
    ELSE IF CheckExpectedKey(dict, "mrn") # PyTrue THEN CheckExpectedKey(dict, "mrn")
    ELSE IF CheckExpectedKey(dict, "room") # PyTrue THEN CheckExpectedKey(dict, "room")
    ELSE IF dict.data = <<>> THEN PyTrue
    ELSE IF dict.data[1].type # "list"
    THEN Message("Invalid type for key 'data'. Expected list.")
    ELSE CheckEntries(dict.data[1].entries, 1)

validate_input_data(dict) ==
    IF CheckExpectedKey(dict, "mrn") # PyTrue THEN CheckExpectedKey(dict, "mrn")
    ELSE IF CheckExpectedKey(dict, "room") # PyTrue THEN CheckExpectedKey(dict, "room")
    ELSE IF dict.name # <<>> /\ ~isinstance_str(dict.name[1])
    THEN Message("Invalid type for key 'name'. Expected str.")
    ELSE IF dict.data = <<>> THEN PyTrue
    ELSE IF dict.data[1].type # "list"
    THEN Message("Invalid type for key 'data'. Expected list.")
    ELSE IF dict.data[1].entries = <<>> THEN PyTrue
    ELSE CheckEntries(dict.data[1].entries, 1)

(***************************************************************************)
(* Specification SpecValidate: the two validators, each applied once to    *)
(* a value and to a request dictionary.                                    *)
(***************************************************************************)
MaxEntries == 2

CpapValues ==
    {PyInt(n) : n \in {-1, 3, 4, 12, 25, 26}}
        \cup {PyStr("4"), PyFloat(12), PyBool(TRUE), PyNone}

Entry(keys, cpap, rate_bpm, apneas) ==
    [type |-> "dict", keys |-> keys, cpap_pressure |-> cpap,
     breathing_rate |-> rate_bpm, apnea_count |-> apneas,
     flow_image_base64 |-> "iVBORw0KGgo"]

AllKeys == {required_data_keys[k] : k \in 1..Len(required_data_keys)}

E_12      == Entry(AllKeys, PyInt(12), 17, 4)
E_13      == Entry(AllKeys, PyInt(13), 18, 1)
E_30      == Entry(AllKeys, PyInt(30), 17, 4)
E_noimg   == Entry(AllKeys \ {"flow_image_base64"}, PyInt(12), 17, 4)
E_partial == Entry({"breathing_rate"}, PyInt(12), 17, 4)
E_list    == [Entry({}, PyInt(12), 17, 4) EXCEPT !.type = "list"]

PyList(entries) == [type |-> "list", entries |-> entries]

PyDict == [type |-> "dict", entries |-> <<>>]

Optional(S) == {<<>>} \cup {<<v>> : v \in S}

KeyValues == {PyInt(7823), PyStr("7823"), PyBool(TRUE)}

NameValues == {PyStr("Qinmeng Yu"), PyInt(1234)}

DataValues ==
    {PyDict} \cup {PyList(es) :
                       es \in SeqsUpTo({E_12, E_noimg, E_partial, E_list}, MaxEntries)}

InDatas ==
    [mrn : Optional(KeyValues), room : Optional(KeyValues),
     name : Optional(NameValues), data : Optional(DataValues)]

InitValidate ==
    /\ StationIdle /\ RaceIdle
    /\ cpap_value \in CpapValues
    /\ in_data \in InDatas
    /\ cpap_answer = <<>>
    /\ in_answer = <<>>
    /\ RowIdle /\ FlowIdle /\ BreathIdle /\ ApneaIdle /\ MetricsIdle /\ ArtifactIdle
    /\ AdcIdle /\ DbIdle

\* answer = validate_cpap_data(input)
ValidateCpap ==
    /\ cpap_answer = <<>>
    /\ cpap_answer' = <<validate_cpap_data(cpap_value)>>
    /\ UNCHANGED <<cpap_value, in_data, in_answer, rowVars, flowVars, breathVars,
                   apneaVars, metricsVars, artifactVars, adc_calls, dbVars, stationVars, handlers>>

\* input_check = validate_input_data(in_data)
ValidateInput ==
    /\ in_answer = <<>>
    /\ in_answer' = <<validate_input_data(in_data)>>
    /\ UNCHANGED <<cpap_value, in_data, cpap_answer, rowVars, flowVars, breathVars,
                   apneaVars, metricsVars, artifactVars, adc_calls, dbVars, stationVars, handlers>>

NextValidate == ValidateCpap \/ ValidateInput

SpecValidate == InitValidate /\ [][NextValidate]_vars

\* The value under validation is an integer in the sense of the language:
\* an int, or a bool, which is an int with value 0 or 1.
CpapIsInteger == cpap_value.type \in {"int", "bool"}

CpapInRange == 4 <= cpap_value.num /\ cpap_value.num <= 25

\* C17: validate_cpap_data returns True exactly for an integer from 4 to 25
\* inclusive; for a non-integer it returns "The CPAP entry must be an
\* integer." and for an integer outside the range "CPAP value out of range.
\* Must be between 4 and 25 inclusive.".
C17_CpapValidIffIntegerInRange ==
    cpap_answer # <<>> =>
        /\ (cpap_answer[1].ok <=> (CpapIsInteger /\ CpapInRange))
        /\ (cpap_answer[1].ok => cpap_answer[1].msg = "")
        /\ (~CpapIsInteger
               => cpap_answer[1] = [ok |-> FALSE,
                                    msg |-> "The CPAP entry must be an integer."])
        /\ ((CpapIsInteger /\ ~CpapInRange)
               => cpap_answer[1] =
                      [ok |-> FALSE,
                       msg |-> "CPAP value out of range. Must be between 4 and 25 inclusive."])

\* The upper limit 25 has been accepted.
C17_Witness ==
    /\ cpap_answer # <<>>
    /\ cpap_answer[1].ok
    /\ cpap_value.type = "int"
    /\ cpap_value.num = 25

\* The key is present in the request and holds an integer.
IntegerKey(key) ==
    in_data[key] # <<>> /\ in_data[key][1].type \in {"int", "bool"}

NameOK == in_data.name = <<>> \/ in_data.name[1].type = "str"

EntryOK(entry) ==
    /\ entry.type = "dict"
    /\ {"cpap_pressure", "breathing_rate", "apnea_count", "flow_image_base64"}
           \subseteq entry.keys

DataOK ==
    \/ in_data.data = <<>>
    \/ /\ in_data.data[1].type = "list"
       /\ \A k \in 1..Len(in_data.data[1].entries) :
              EntryOK(in_data.data[1].entries[k])

\* The message for a required key that is missing or not an integer.
KeyMessage(key) ==
    IF in_data[key] = <<>> THEN "The " \o key \o " was not found."
    ELSE "Invalid type for key '" \o key \o "'."

\* The messages about the data: of the list itself, or of its first entry
\* that is not a complete dictionary.
DataMessages ==
    IF in_data.data[1].type # "list"
    THEN {"Invalid type for key 'data'. Expected list."}
    ELSE LET es    == in_data.data[1].entries
             first == SetMin({k \in 1..Len(es) : ~EntryOK(es[k])})
         IN IF es[first].type # "dict"
            THEN {"Each entry in 'data' must be a dictionary."}
            ELSE {"Missing key '" \o key \o "' in data entry." :
                      key \in AllKeys \ es[first].keys}

\* C18: validate_input_data returns True exactly when mrn and room are
\* present and integers, the name, if present, is a string, and the data,
\* if present, is a list of dictionaries that each hold the four required
\* keys; otherwise it returns the message of the first failing check in the
\* order mrn, room, name, data.
C18_InputValidIffWellFormed ==
    in_answer # <<>> =>
        /\ (in_answer[1].ok <=>
                (IntegerKey("mrn") /\ IntegerKey("room") /\ NameOK /\ DataOK))
        /\ (~IntegerKey("mrn") => in_answer[1].msg = KeyMessage("mrn"))
        /\ ((IntegerKey("mrn") /\ ~IntegerKey("room"))
               => in_answer[1].msg = KeyMessage("room"))
        /\ ((IntegerKey("mrn") /\ IntegerKey("room") /\ ~NameOK)
               => in_answer[1].msg = "Invalid type for key 'name'. Expected str.")
        /\ ((IntegerKey("mrn") /\ IntegerKey("room") /\ NameOK /\ ~DataOK)
               => in_answer[1].msg \in DataMessages)

\* A request with a bad name and a bad data entry was answered with the
\* message about the name.
C18_Witness ==
    /\ in_answer # <<>>
    /\ IntegerKey("mrn") /\ IntegerKey("room")
    /\ ~NameOK /\ ~DataOK
    /\ in_answer[1].msg = "Invalid type for key 'name'. Expected str."

(***************************************************************************)
(* add_patient_to_database, create_cpap_entry and create_new_patient       *)
(* (src/server.py:177-290) on the Patient collection                       *)
(* (src/database_classes.py).  The collection is a function from the MRN,  *)
(* its primary key, to the stored patient; the name of a patient stored    *)
(* without one is <<>>.                                                    *)
(***************************************************************************)
\* CPAPdata(cpap_pressure=..., ..., timestamp=timestamp)
create_cpap_entry(entry, now) ==
    [cpap_pressure     |-> entry.cpap_pressure.num,
     breathing_rate    |-> entry.breathing_rate,
     apnea_count       |-> entry.apnea_count,
     flow_image_base64 |-> entry.flow_image_base64,
     timestamp         |-> now]

\* The entries to convert: if "data" in in_data and in_data["data"]
UploadedEntries(dict) ==
    IF dict.data = <<>> THEN <<>> ELSE dict.data[1].entries

\* Variant of CreateEntries that converts the entries without validating
\* their pressure.
CreateEntries_unchecked(dict, now) ==
    LET es == UploadedEntries(dict)
    IN Returned([k \in 1..Len(es) |-> create_cpap_entry(es[k], now)])

\* for entry in in_data["data"]: create_cpap_entry(entry), which raises
\* ValueError(cpap_check) at the first entry whose pressure is not valid.
CreateEntries(dict, now) ==
    LET es  == UploadedEntries(dict)
        bad == {k \in 1..Len(es) : validate_cpap_data(es[k].cpap_pressure) # PyTrue}
    IN IF bad # {}
       THEN Raised(validate_cpap_data(es[SetMin(bad)].cpap_pressure).msg)
       ELSE Returned([k \in 1..Len(es) |-> create_cpap_entry(es[k], now)])

\* Variant of the update that puts the new entries before the stored ones.
UpdatedPatient_prepends(stored, dict, entries) ==
    [name |-> IF dict.name # <<>> THEN <<dict.name[1].str>> ELSE stored.name,
     room |-> stored.room,
     data |-> entries \o stored.data]

\* patient.name = in_data["name"]; patient.data.append(cpap_entry)
UpdatedPatient(stored, dict, entries) ==
    [name |-> IF dict.name # <<>> THEN <<dict.name[1].str>> ELSE stored.name,
     room |-> stored.room,
     data |-> stored.data \o entries]

\* Patient(mrn=..., name=..., room=..., data=new_data), the name left out
\* when the request has none.
NewPatient(dict, entries) ==
    [name |-> IF dict.name # <<>> THEN <<dict.name[1].str>> ELSE <<>>,
     room |-> dict.room[1].num,
     data |-> entries]

\* Patient.objects.raw({"room": in_data["room"]}): the stored patients of
\* that room.
Occupants(stored, room) == {m \in DOMAIN stored : stored[m].room = room}

\* existing_patient.delete() / patient.save()
Without(stored, gone) == [m \in (DOMAIN stored) \ gone |-> stored[m]]

Save(stored, mrn, p) ==
    [m \in (DOMAIN stored) \cup {mrn} |-> IF m = mrn THEN p ELSE stored[m]]

\* Variant of the eviction that leaves the occupant of the room stored.
Evicted_none(mrn, occupant) == {}

\* if existing_patient.mrn != in_data["mrn"]: existing_patient.delete()
Evicted(mrn, occupant) == IF occupant # mrn THEN {occupant} ELSE {}

(***************************************************************************)
(* Specification SpecDb: sequential calls of add_patient_to_database with  *)
(* requests that passed validate_input_data, on a collection that starts   *)
(* empty.                                                                  *)
(***************************************************************************)
MaxCalls == 3

DbRequests ==
    {r \in [mrn  : {<<PyInt(123)>>, <<PyInt(13)>>},
            room : {<<PyInt(7)>>, <<PyInt(8)>>},
            name : Optional({PyStr("David"), PyStr("Sofia")}),
            data : {<<>>, <<PyList(<<>>)>>, <<PyList(<<E_12, E_13>>)>>,
                    <<PyList(<<E_13, E_30>>)>>}] :
        validate_input_data(r) = PyTrue}

InitDb ==
    /\ StationIdle /\ RaceIdle
    /\ db = <<>>
    /\ last_call = <<>>
    /\ clock = 0
    /\ RowIdle /\ FlowIdle /\ BreathIdle /\ ApneaIdle /\ MetricsIdle /\ ArtifactIdle
    /\ AdcIdle /\ ValidateIdle

\* The try block: the MRN is stored.  Nothing is saved when an entry is
\* rejected.
UpdateExisting(dict, mrn) ==
    /\ mrn \in DOMAIN db
    /\ \E made \in {CreateEntries(dict, clock)} :
          /\ db' = IF made.raised # <<>> THEN db
                   ELSE Save(db, mrn, UpdatedPatient(db[mrn], dict, made.value[1]))
          /\ last_call' = [in_data |-> dict, path |-> "update", evicted |-> {},
                           raised |-> made.raised]

\* The except block: the MRN is not stored.  The occupant of the room is
\* deleted before create_new_patient converts the entries.
CreateNew(dict, mrn) ==
    /\ mrn \notin DOMAIN db
    /\ \E gone \in (IF Occupants(db, dict.room[1].num) = {} THEN {{}}
                    ELSE {Evicted(mrn, occupant) :
                              occupant \in Occupants(db, dict.room[1].num)}) :
       \E made \in {CreateEntries(dict, clock)} :
          /\ db' = IF made.raised # <<>> THEN Without(db, gone)
                   ELSE Save(Without(db, gone), mrn, NewPatient(dict, made.value[1]))
          /\ last_call' = [in_data |-> dict, path |-> "create", evicted |-> gone,
                           raised |-> made.raised]

\* add_patient_to_database(in_data)
AddPatient ==
    /\ clock < MaxCalls
    /\ \E dict \in DbRequests :
          \/ UpdateExisting(dict, dict.mrn[1].num)
          \/ CreateNew(dict, dict.mrn[1].num)
    /\ clock' = clock + 1
    /\ UNCHANGED <<rowVars, flowVars, breathVars, apneaVars, metricsVars,
                   artifactVars, adc_calls, validateVars, stationVars, handlers>>

NextDb == AddPatient

SpecDb == InitDb /\ [][NextDb]_vars

\* The entries of the list uploaded by the last call.
Uploaded ==
    IF last_call'.in_data.data = <<>> THEN <<>>
    ELSE last_call'.in_data.data[1].entries

\* The step is a call for a stored MRN that returned.
UpdateStep ==
    /\ clock' = clock + 1
    /\ last_call'.in_data.mrn[1].num \in DOMAIN db
    /\ last_call'.raised = <<>>

\* What such a call leaves in the collection.
UpdateEffect ==
    LET mrn == last_call'.in_data.mrn[1].num
        old == db[mrn].data
        new == db'[mrn].data
    IN /\ DOMAIN db' = DOMAIN db
       /\ \A m \in (DOMAIN db) \ {mrn} : db'[m] = db[m]
       /\ db'[mrn].name = IF last_call'.in_data.name # <<>>
                          THEN <<last_call'.in_data.name[1].str>>
                          ELSE db[mrn].name
       /\ Len(new) = Len(old) + Len(Uploaded)
       /\ \A k \in 1..Len(old) : new[k] = old[k]
       /\ \A k \in 1..Len(Uploaded) :
              /\ new[Len(old) + k].cpap_pressure = Uploaded[k].cpap_pressure.num
              /\ new[Len(old) + k].breathing_rate = Uploaded[k].breathing_rate
              /\ new[Len(old) + k].apnea_count = Uploaded[k].apnea_count
              /\ new[Len(old) + k].flow_image_base64 = Uploaded[k].flow_image_base64

C20_OnePatientPerRoom ==
    /\ \A m, n \in DOMAIN db : m # n => db[m].room # db[n].room
    /\ (/\ last_call # <<>>
        /\ last_call.path = "create"
        /\ last_call.raised = <<>>) =>
           Occupants(db, last_call.in_data.room[1].num)
               = {last_call.in_data.mrn[1].num}

\* A new MRN has been stored in a room that another patient occupied, and
\* that patient is no longer stored.
C20_Witness ==
    /\ last_call # <<>>
    /\ last_call.path = "create"
    /\ last_call.raised = <<>>
    /\ last_call.evicted # {}
    /\ last_call.evicted \cap DOMAIN db = {}
    /\ last_call.in_data.mrn[1].num \in DOMAIN db


(***************************************************************************)
(* The patient station (src/patient_interface.py).                         *)
(*                                                                         *)
(* The window's fields are texts; BR_value and apnea_count_value hold      *)
(* "No available data" until a file was analysed.  The plot file           *)
(* flow_plot.jpg is <<>> while it does not exist and <<content>> after.    *)
(***************************************************************************)
NoData == <<"N", "o", " ", "a", "v", "a", "i", "l", "a", "b", "l", "e", " ", "d", "a", "t", "a">>

\* image_toolbox.read_file_as_b64: the file's bytes in base64 text; opening
\* a file that does not exist raises.
read_file_as_b64(plot_file) ==
    IF plot_file = <<>> THEN Raised("FileNotFoundError")
    ELSE Returned([b64 |-> plot_file[1]])

\* Variant of PresenceBranch: a CPAP pressure without calculated data is
\* uploaded as if neither were there.
PresenceBranch_lonely_cpap_ignored(check_cpap, check_data) ==
    IF ~check_data /\ ~check_cpap THEN "return"
    ELSE IF check_cpap /\ ~check_data THEN "return"
    ELSE IF check_data /\ ~check_cpap THEN "data only"
    ELSE "both"

\* The three tests on check_cpap and check_data, in the order of the code.
PresenceBranch(check_cpap, check_data) ==
    IF ~check_cpap /\ ~check_data THEN "return"
    ELSE IF check_cpap /\ ~check_data THEN "cpap only"
    ELSE IF check_data /\ ~check_cpap THEN "data only"
    ELSE "both"

\* The last try block: any exception in it is re-raised as a ValueError.
DataEntry(cpap_text, BR, apnea_cnt, plot_file) ==
    IF ~IntParses(cpap_text)
    THEN Raised("Invalid CPAP pressure: invalid literal for int()")
    ELSE LET cpap_pressure == IntValue(cpap_text)
             cpap_check == validate_cpap_data(PyInt(cpap_pressure))
             image == read_file_as_b64(plot_file)
         IN IF cpap_check # PyTrue
            THEN Raised("Invalid CPAP pressure: " \o cpap_check.msg)
            ELSE IF ~FloatParses(BR)
            THEN Raised("Invalid CPAP pressure: could not convert string to float")
            ELSE IF ~IntParses(apnea_cnt)
            THEN Raised("Invalid CPAP pressure: invalid literal for int()")
            ELSE IF image.raised # <<>>
            THEN Raised("Invalid CPAP pressure: " \o image.raised[1])
            ELSE Returned([cpap_pressure |-> cpap_pressure,
                           breathing_rate |-> FloatValue(BR),
                           apnea_count |-> IntValue(apnea_cnt),
                           flow_image_base64 |-> image.value[1]])

generate_json_file(mrn_value, room_value, name_value, cpap_text, BR, apnea_cnt, plot_file) ==
    IF mrn_value = <<>> \/ room_value = <<>>
    THEN Raised("MRN and Room Number are required.")
    ELSE IF ~IntParses(mrn_value) \/ ~IntParses(room_value)
    THEN Raised("MRN and Room Number must be integers.")
    ELSE LET base == [mrn |-> IntValue(mrn_value), room |-> IntValue(room_value),
                      name |-> IF name_value # <<>> THEN <<name_value>> ELSE <<>>,
                      data |-> <<>>]
             check_cpap == cpap_text # <<>>
             check_data == BR # NoData /\ apnea_cnt # NoData
             branch == PresenceBranch(check_cpap, check_data)
             entry == DataEntry(cpap_text, BR, apnea_cnt, plot_file)
         IN IF branch = "return" THEN Returned(base)
            ELSE IF branch = "cpap only"
            THEN Raised("Cannot upload CPAP pressure without CPAP calculated data.")
            ELSE IF branch = "data only"
            THEN Raised("Cannot upload CPAP calculated data without CPAP pressure.")
            ELSE IF entry.raised # <<>> THEN entry
            ELSE Returned([base EXCEPT !.data = <<entry.value[1]>>])

(***************************************************************************)
(* Specification SpecJson: generate_json_file on one set of arguments.     *)
(***************************************************************************)
MrnTexts == {<<>>, <<"1", "2", "3">>, <<"a", "b", "c">>, <<"1", "2", ".", "5">>}

RoomTexts == {<<>>, <<"1", "0", "1">>, <<"x">>, <<"7", ".", "0">>}

NameTexts == {<<>>, <<"A", "n", "n">>}

CpapTexts == {<<>>, <<"3">>, <<"4">>, <<"2", "4">>, <<"2", "5">>, <<"2", "6">>, <<"a", "b", "c">>, <<"1", "2", ".", "5">>}

RateTexts == {NoData, <<"1", "5", ".", "9", "0">>}

ApneaTexts == {NoData, <<"3">>}

PlotFiles == {<<PlotOf(P_a_p)>>, <<PlotOf(P_b_p)>>}

InitJson ==
    /\ form \in [mrn : MrnTexts, room : RoomTexts, name : NameTexts,
                 cpap : CpapTexts, BR : RateTexts, apnea_count : ApneaTexts,
                 flow_plot : PlotFiles]
    /\ out_json = <<>>
    /\ station = <<>>
    /\ RowIdle /\ FlowIdle /\ BreathIdle /\ ApneaIdle /\ MetricsIdle /\ ArtifactIdle
    /\ AdcIdle /\ ValidateIdle /\ DbIdle /\ RaceIdle

\* collect_patient_data: the fields are read and handed to generate_json_file.
GenerateJson ==
    /\ out_json = <<>>
    /\ out_json' = <<generate_json_file(form.mrn, form.room, form.name, form.cpap,
                                        form.BR, form.apnea_count, form.flow_plot)>>
    /\ UNCHANGED <<rowVars, flowVars, breathVars, apneaVars, metricsVars,
                   artifactVars, adc_calls, validateVars, dbVars,
                   form, station, handlers>>

NextJson == GenerateJson

SpecJson == InitJson /\ [][NextJson]_vars

\* Claim side, stated without the code's parsers: a text is an integer when
\* it is a non-empty run of digits, optionally after a minus sign.
IsIntegerText(s) ==
    LET body == IF s # <<>> /\ s[1] = "-" THEN Tail(s) ELSE s
    IN body # <<>> /\ \A k \in 1..Len(body) : body[k] \in Digits

RECURSIVE TextNumber(_)
TextNumber(s) ==
    IF s = <<>> THEN 0
    ELSE 10 * TextNumber(SubSeq(s, 1, Len(s) - 1)) + DigitVal(s[Len(s)])

IdentityOK == IsIntegerText(form.mrn) /\ IsIntegerText(form.room)

CpapGiven == form.cpap # <<>>

DataGiven == form.BR # NoData /\ form.apnea_count # NoData

CpapTextOK ==
    /\ IsIntegerText(form.cpap)
    /\ form.cpap[1] # "-"
    /\ 4 <= TextNumber(form.cpap) /\ TextNumber(form.cpap) <= 25

JsonRaised == out_json[1].raised # <<>>

JsonReturned == out_json[1].value # <<>>

JsonBase ==
    /\ out_json[1].value[1].mrn = TextNumber(form.mrn)
    /\ out_json[1].value[1].room = TextNumber(form.room)
    /\ out_json[1].value[1].name = (IF form.name = <<>> THEN <<>> ELSE <<form.name>>)

\* C21: generate_json_file raises when MRN or room is empty or not an
\* integer, when exactly one of CPAP pressure and calculated data is there,
\* and when both are there but the pressure is not an integer in 4..25;
\* with neither it returns mrn, room and the optional name only; with both
\* and a valid pressure it returns them with exactly one data entry.
C21_JsonDataIffBothPresent ==
    out_json # <<>> =>
        /\ ~IdentityOK => JsonRaised
        /\ (IdentityOK /\ (CpapGiven # DataGiven)) => JsonRaised
        /\ (IdentityOK /\ CpapGiven /\ DataGiven /\ ~CpapTextOK) => JsonRaised
        /\ (IdentityOK /\ ~CpapGiven /\ ~DataGiven) =>
               JsonReturned /\ JsonBase /\ out_json[1].value[1].data = <<>>
        /\ (IdentityOK /\ CpapGiven /\ DataGiven /\ CpapTextOK) =>
               /\ JsonReturned /\ JsonBase
               /\ Len(out_json[1].value[1].data) = 1
               /\ out_json[1].value[1].data[1].cpap_pressure = TextNumber(form.cpap)
               /\ out_json[1].value[1].data[1].flow_image_base64
                      = [b64 |-> form.flow_plot[1]]

C21_Witness ==
    /\ out_json # <<>>
    /\ IdentityOK /\ CpapGiven /\ DataGiven /\ CpapTextOK
    /\ JsonReturned
    /\ out_json[1].value[1].data # <<>>


(***************************************************************************)
(* The patient station's window (main_window): file selection, upload,     *)
(* reset and the 30-second poll of the room's CPAP pressure.               *)
(***************************************************************************)
DigitChars == <<"0", "1", "2", "3", "4", "5", "6", "7", "8", "9">>

\* str(n) of an integer.
RECURSIVE str_int(_)
str_int(n) ==
    IF n < 0 THEN <<"-">> \o str_int(-n)
    ELSE IF n < 10 THEN <<DigitChars[n + 1]>>
    ELSE str_int(n \div 10) \o <<DigitChars[(n % 10) + 1]>>

\* f"{breath_rate:.2f}" of a rate given in 1/1000 bpm.
format_2f(milli) ==
    LET hundredths == (milli + 5) \div 10
    IN str_int(hundredths \div 100) \o <<".">>
           \o <<DigitChars[((hundredths \div 10) % 10) + 1],
                DigitChars[(hundredths % 10) + 1]>>

\* What requests.get gives: a response with its status and, for a JSON
\* body, the value under "cpap_pressure" (<<>> for null), or an exception
\* raised before any response exists.
Response(status, pressure) ==
    [kind |-> "response", status |-> status, cpap_pressure |-> pressure]

ConnectionFailure == [kind |-> "connection", status |-> 0, cpap_pressure |-> <<>>]

\* fetch_latest_cpap.  In the RequestException handler the message is built
\* from r.text; r is bound only if requests.get returned.
fetch_latest_cpap(room, reply) ==
    IF ~IntParses(room)
    THEN [raised |-> <<>>, value |-> <<<<>>>>, shown |-> <<"Validation Error">>,
          requested |-> FALSE]
    ELSE IF reply.kind = "connection"
    THEN [raised |-> <<"UnboundLocalError">>, value |-> <<>>, shown |-> <<>>,
          requested |-> TRUE]
    ELSE IF reply.status >= 400
    THEN [raised |-> <<>>, value |-> <<<<>>>>, shown |-> <<"Server Error">>,
          requested |-> TRUE]
    ELSE IF reply.cpap_pressure # <<>>
    THEN [raised |-> <<>>, value |-> <<str_int(reply.cpap_pressure[1])>>,
          shown |-> <<>>, requested |-> TRUE]
    ELSE [raised |-> <<>>, value |-> <<<<>>>>, shown |-> <<>>, requested |-> TRUE]

\* The recordings behind the files the user can pick: one breath, two
\* breaths, a single accepted record, a header only; any other path does not
\* exist.
PulseRecording(q, dt, t0) ==
    <<[k \in 1..(Len(q) + 2) |-> t0 + (k - 1) * dt], <<0>> \o q \o <<0>>>>

P_missing == <<"g", "o", "n", "e", ".", "t", "x", "t">>

StationPaths == {P_a_p, P_b_p, P_a_q, P_p, P_missing}

\* flow_analysis(file_path)
FileContent(path) ==
    IF path = P_a_p THEN Returned(PulseRecording(Pulse(45, 0), 200, 5000))
    ELSE IF path = P_b_p
    THEN Returned(PulseRecording(Pulse(45, 0) \o Pulse(50, 0), 180, 5000))
    ELSE IF path = P_a_q THEN Returned(<<<<0>>, <<-2>>>>)
    ELSE IF path = P_p THEN Returned(<<<<>>, <<>>>>)
    ELSE Raised("FileNotFoundError")

\* What the last handler did: the reply it got, the dialog it showed and,
\* for a poll, how fetch_latest_cpap ended.
Event(op, reply, shown, fetched) ==
    [op |-> op, reply |-> reply, shown |-> shown, fetched |-> fetched]

InitStation ==
    /\ form = [mrn |-> <<>>, room |-> <<>>, name |-> <<>>, cpap |-> <<>>,
               BR |-> NoData, apnea_count |-> NoData, flow_plot |-> <<>>]
    /\ out_json = <<>>
    /\ station = [mrn_entry |-> "normal", room_entry |-> "normal",
                  timer |-> "scheduled", analysed |-> <<>>,
                  last |-> Event("start", <<>>, <<>>, <<>>)]
    /\ RowIdle /\ FlowIdle /\ BreathIdle /\ ApneaIdle /\ MetricsIdle /\ ArtifactIdle
    /\ AdcIdle /\ ValidateIdle /\ DbIdle /\ RaceIdle

StationTexts ==
    [mrn |-> {<<>>, <<"1", "2", "3">>}, room |-> {<<>>, <<"1", "0", "1">>, <<"x">>},
     name |-> {<<>>, <<"A", "n", "n">>}, cpap |-> {<<>>, <<"3", "0">>}]

\* The user types into one of the four entries; a disabled entry takes no
\* input.
Edit ==
    \E field \in DOMAIN StationTexts : \E text \in StationTexts[field] :
        /\ field = "mrn" => station.mrn_entry = "normal"
        /\ field = "room" => station.room_entry = "normal"
        /\ form[field] # text
        /\ form' = [form EXCEPT ![field] = text]
        /\ station' = [station EXCEPT !.last = Event("edit", <<>>, <<>>, <<>>)]
        /\ UNCHANGED <<rowVars, flowVars, breathVars, apneaVars, metricsVars,
                       artifactVars, adc_calls, validateVars, dbVars,
                       out_json, handlers>>

\* cpap_file_select_btn_cmd with a chosen file: the plot is written before
\* the breath rate is calculated; the labels are set after both succeeded.
SelectFile ==
    \E path \in StationPaths :
      \E load \in {FileContent(path)} :
        /\ IF load.raised # <<>>
           THEN /\ form' = form
                /\ station' = [station EXCEPT
                                 !.last = Event("select", <<>>, <<"Error">>, <<>>)]
           ELSE \E breath_rate \in {calculate_breath_rate_bpm(load.value[1])} :
                  IF breath_rate.raised # <<>>
                  THEN /\ form' = [form EXCEPT !.flow_plot = <<PlotOf(path)>>]
                       /\ station' = [station EXCEPT
                                        !.last = Event("select", <<>>, <<"Error">>, <<>>)]
                  ELSE /\ form' = [form EXCEPT
                                     !.flow_plot = <<PlotOf(path)>>,
                                     !.BR = format_2f(breath_rate.value[1]),
                                     !.apnea_count =
                                         str_int(count_apnea(load.value[1]))]
                       /\ station' = [station EXCEPT
                                        !.analysed = <<path>>,
                                        !.last = Event("select", <<>>, <<>>, <<>>)]
        /\ UNCHANGED <<rowVars, flowVars, breathVars, apneaVars, metricsVars,
                       artifactVars, adc_calls, validateVars, dbVars,
                       out_json, handlers>>

\* cpap_file_select_btn_cmd answered "No": file_path is not bound, the
\* NameError is caught and shown.
DeclineFile ==
    /\ station.last.shown # <<"Error">>
    /\ station' = [station EXCEPT !.last = Event("select", <<>>, <<"Error">>, <<>>)]
    /\ UNCHANGED <<rowVars, flowVars, breathVars, apneaVars, metricsVars,
                   artifactVars, adc_calls, validateVars, dbVars,
                   form, out_json, handlers>>

UploadReplies == {Response(200, <<>>), Response(400, <<>>), ConnectionFailure}

\* upload_btn_cmd: collect_patient_data, send_to_server, then both entries
\* are disabled; send_to_server shows a dialog for either status and
\* returns.
Upload ==
    \E out \in {generate_json_file(form.mrn, form.room, form.name, form.cpap,
                                   form.BR, form.apnea_count, form.flow_plot)} :
        /\ out_json' = <<out>>
        /\ IF out.raised # <<>>
           THEN station' = [station EXCEPT
                              !.last = Event("upload", <<>>, <<"Validation Error">>, <<>>)]
           ELSE \E reply \in UploadReplies :
                  IF reply.kind = "connection"
                  THEN station' = [station EXCEPT
                                     !.last = Event("upload", <<reply>>,
                                                    <<"Upload Error">>, <<>>)]
                  ELSE station' = [station EXCEPT
                                     !.mrn_entry = "disabled",
                                     !.room_entry = "disabled",
                                     !.last = Event("upload", <<reply>>,
                                                IF reply.status = 200
                                                THEN <<"Success">>
                                                ELSE <<"Upload Error">>,
                                                <<>>)]
        /\ UNCHANGED <<rowVars, flowVars, breathVars, apneaVars, metricsVars,
                       artifactVars, adc_calls, validateVars, dbVars,
                       form, handlers>>

\* reset_btn_cmd
Reset ==
    /\ form' = [form EXCEPT !.cpap = <<>>, !.name = <<>>, !.mrn = <<>>,
                            !.room = <<>>, !.BR = NoData, !.apnea_count = NoData]
    /\ station' = [station EXCEPT !.mrn_entry = "normal", !.room_entry = "normal",
                                  !.analysed = <<>>,
                                  !.last = Event("reset", <<>>, <<>>, <<>>)]
    /\ UNCHANGED <<rowVars, flowVars, breathVars, apneaVars, metricsVars,
                   artifactVars, adc_calls, validateVars, dbVars,
                   out_json, handlers>>

PollReplies ==
    {Response(200, <<12>>), Response(200, <<>>), Response(400, <<>>),
     ConnectionFailure}

\* update_latest_cpap_pressure, run by the timer: root.after is reached
\* only if fetch_latest_cpap returns.
Poll ==
    /\ station.timer = "scheduled"
    /\ IF form.room = <<>>
       THEN /\ form' = form
            /\ station' = [station EXCEPT !.last = Event("poll", <<>>, <<>>, <<>>)]
       ELSE \E reply \in PollReplies :
              \E upd_cpap \in {fetch_latest_cpap(form.room, reply)} :
                IF upd_cpap.raised # <<>>
                THEN /\ form' = form
                     /\ station' = [station EXCEPT
                                      !.timer = "none",
                                      !.last = Event("poll", <<reply>>, upd_cpap.shown, <<upd_cpap>>)]
                ELSE /\ form' = [form EXCEPT !.cpap = upd_cpap.value[1]]
                     /\ station' = [station EXCEPT
                                      !.last = Event("poll", <<reply>>, upd_cpap.shown, <<upd_cpap>>)]
    /\ UNCHANGED <<rowVars, flowVars, breathVars, apneaVars, metricsVars,
                   artifactVars, adc_calls, validateVars, dbVars,
                   out_json, handlers>>

NextStation == Edit \/ SelectFile \/ DeclineFile \/ Upload \/ Reset \/ Poll

SpecStation == InitStation /\ [][NextStation]_vars

Polled == station.last.op = "poll" /\ station.last.fetched # <<>>

ServerReportsPressure ==
    /\ station.last.reply[1].kind = "response"
    /\ station.last.reply[1].status = 200
    /\ station.last.reply[1].cpap_pressure # <<>>

RequestFailed ==
    \/ station.last.reply[1].kind = "connection"
    \/ station.last.reply[1].status >= 400

\* C22: fetch_latest_cpap always returns a string: the server's pressure
\* as text when the server reports one, and the empty string when it
\* reports none, when the room is not an integer (nothing is requested and
\* a validation error is shown) or when the request fails (an error is
\* shown).
C22_FetchAlwaysReturnsString ==
    Polled =>
        /\ station.last.fetched[1].raised = <<>>
        /\ station.last.fetched[1].value # <<>>
        /\ (IsIntegerText(form.room) /\ ServerReportsPressure)
               => TextNumber(station.last.fetched[1].value[1])
                      = station.last.reply[1].cpap_pressure[1]
        /\ ~(IsIntegerText(form.room) /\ ServerReportsPressure)
               => station.last.fetched[1].value[1] = <<>>
        /\ ~IsIntegerText(form.room)
               => /\ ~station.last.fetched[1].requested
                  /\ station.last.fetched[1].shown = <<"Validation Error">>
        /\ (IsIntegerText(form.room) /\ RequestFailed)
               => station.last.fetched[1].shown # <<>>

\* C23: every run of update_latest_cpap_pressure leaves the next run
\* scheduled, whatever the fetch did.
C23_PollAlwaysReschedules ==
    station # <<>> => (station.last.op = "poll" => station.timer = "scheduled")


UploadedEntry ==
    /\ station.last.op = "upload"
    /\ station.last.reply # <<>>
    /\ out_json[1].value[1].data # <<>>

\* C29: every upload that includes a data entry carries the flow image
\* written by the same file analysis that set the breathing rate and apnea
\* count it carries.
C29_UploadImageFromSameAnalysis ==
    (station # <<>> /\ UploadedEntry) =>
        /\ station.analysed # <<>>
        /\ out_json[1].value[1].data[1].flow_image_base64
               = [b64 |-> PlotOf(station.analysed[1])]

Accepted(event) ==
    /\ event.op = "upload"
    /\ event.reply # <<>>
    /\ event.reply[1].kind = "response"
    /\ event.reply[1].status = 200

EntryStates(window) == <<window.mrn_entry, window.room_entry>>

\* C30: the MRN and room entries become disabled only by an upload the
\* server answered with status 200; an upload that was rejected, failed
\* validation or failed to connect leaves them as they were, and a reset
\* makes both editable.
C30_EntriesDisabledOnlyWhenAccepted ==
    [][/\ (EntryStates(station') # EntryStates(station)
              /\ EntryStates(station') # <<"normal", "normal">>)
           => Accepted(station'.last)
       /\ (station'.last.op = "upload" /\ ~Accepted(station'.last))
           => EntryStates(station') = EntryStates(station)
       /\ station'.last.op = "reset"
           => EntryStates(station') = <<"normal", "normal">>]_vars


(***************************************************************************)
(* The routes POST /upload_patient and POST /room/<n>/update_cpap          *)
(* (src/server.py:12-27, 136-174) on the Patient collection.               *)
(***************************************************************************)
\* Variant of updated_entry that keeps the pressure of the latest entry.
updated_entry_keeps_pressure(latest_entry, value, now) ==
    [cpap_pressure     |-> latest_entry.cpap_pressure,
     breathing_rate    |-> latest_entry.breathing_rate,
     apnea_count       |-> latest_entry.apnea_count,
     flow_image_base64 |-> latest_entry.flow_image_base64,
     timestamp         |-> now]

\* CPAPdata(cpap_pressure=in_data["cpap_pressure"], ... of latest_entry,
\* timestamp=datetime.now())
updated_entry(latest_entry, value, now) ==
    [cpap_pressure     |-> value.num,
     breathing_rate    |-> latest_entry.breathing_rate,
     apnea_count       |-> latest_entry.apnea_count,
     flow_image_base64 |-> latest_entry.flow_image_base64,
     timestamp         |-> now]

\* update_cpap_pressure(room_number) on a body whose "cpap_pressure" is
\* body (<<>> when the key is missing): the status and the collection it
\* leaves.  first() takes one of the patients of the room.
update_cpap_pressure(stored, room_number, body, now) ==
    IF body = <<>> THEN {[status |-> 400, db |-> stored]}
    ELSE IF validate_cpap_data(body[1]) # PyTrue
    THEN {[status |-> 400, db |-> stored]}
    ELSE IF Occupants(stored, room_number) = {}
    THEN {[status |-> 404, db |-> stored]}
    ELSE {IF stored[m].data = <<>>
          THEN [status |-> 404, db |-> stored]
          ELSE [status |-> 200,
                db |-> Save(stored, m,
                            [stored[m] EXCEPT !.data =
                                Append(@, updated_entry(@[Len(@)], body[1], now))])] :
             m \in Occupants(stored, room_number)}

\* Requests that validate_input_data rejects.
RejectedUploads ==
    {[mrn |-> <<>>, room |-> <<PyInt(7)>>, name |-> <<>>, data |-> <<>>],
     [mrn |-> <<PyInt(13)>>, room |-> <<PyStr("7")>>, name |-> <<>>,
      data |-> <<PyList(<<E_12>>)>>]}

ServerUploads == DbRequests \cup RejectedUploads

ServerRooms == {7, 8, 9}

CpapBodies ==
    {<<>>} \cup {<<v>> : v \in {PyInt(3), PyInt(4), PyInt(25), PyInt(26),
                               PyBool(TRUE), PyStr("14")}}

\* post_new_patient: validate_input_data, then add_patient_to_database;
\* any exception of the latter is answered with status 400.
PostNewPatient ==
    /\ clock < MaxCalls
    /\ \E dict \in ServerUploads :
          IF validate_input_data(dict) # PyTrue
          THEN /\ db' = db
               /\ last_call' = [in_data |-> dict, path |-> "rejected",
                                evicted |-> {},
                                raised |-> <<validate_input_data(dict).msg>>]
          ELSE \/ UpdateExisting(dict, dict.mrn[1].num)
               \/ CreateNew(dict, dict.mrn[1].num)
    /\ clock' = clock + 1
    /\ UNCHANGED <<rowVars, flowVars, breathVars, apneaVars, metricsVars,
                   artifactVars, adc_calls, validateVars, stationVars, handlers>>

\* The status post_new_patient answers with.
UploadStatus(call) == IF call.raised # <<>> THEN 400 ELSE 200

UpdateCpapPressure ==
    /\ clock < MaxCalls
    /\ \E room_number \in ServerRooms : \E body \in CpapBodies :
         \E answer \in update_cpap_pressure(db, room_number, body, clock) :
            /\ db' = answer.db
            /\ last_call' = [in_data |-> body, path |-> "update_cpap",
                             evicted |-> {}, raised |-> <<>>,
                             room |-> room_number, status |-> answer.status]
    /\ clock' = clock + 1
    /\ UNCHANGED <<rowVars, flowVars, breathVars, apneaVars, metricsVars,
                   artifactVars, adc_calls, validateVars, stationVars, handlers>>

NextServer == PostNewPatient \/ UpdateCpapPressure

SpecServer == InitDb /\ [][NextServer]_vars

UpdateCpapStep == clock' = clock + 1 /\ last_call'.path = "update_cpap"

PressureValid(body) ==
    /\ body # <<>>
    /\ body[1].type = "int"
    /\ 4 <= body[1].num /\ body[1].num <= 25

\* The one entry appended to patient m, the rest of the collection as
\* before.
AppendedTo(m) ==
    LET old == db[m].data
        new == db'[m].data
    IN /\ DOMAIN db' = DOMAIN db
       /\ \A n \in (DOMAIN db) \ {m} : db'[n] = db[n]
       /\ db'[m].name = db[m].name
       /\ db'[m].room = db[m].room
       /\ Len(new) = Len(old) + 1
       /\ \A k \in 1..Len(old) : new[k] = old[k]
       /\ new[Len(new)].cpap_pressure = last_call'.in_data[1].num
       /\ new[Len(new)].breathing_rate = old[Len(old)].breathing_rate
       /\ new[Len(new)].apnea_count = old[Len(old)].apnea_count
       /\ new[Len(new)].flow_image_base64 = old[Len(old)].flow_image_base64

UpdateCpapEffect ==
    LET occupants == {m \in DOMAIN db : db[m].room = last_call'.room}
        possible  == /\ PressureValid(last_call'.in_data)
                     /\ \E m \in occupants : db[m].data # <<>>
    IN /\ last_call'.status = 200 <=> possible
       /\ last_call'.status = 200 => \E m \in occupants : AppendedTo(m)
       /\ last_call'.status # 200 => db' = db

\* C24: a successful POST /room/<n>/update_cpap with pressure p appends
\* exactly one entry to the room's patient, with pressure p and the
\* breathing rate, apnea count and flow image of the latest entry, and
\* changes nothing else; with no entry, no patient or an invalid p the
\* request does not succeed and nothing is stored.
C24_UpdateCpapAppendsOneEntry == [][UpdateCpapStep => UpdateCpapEffect]_vars

\* A patient uploaded with two entries got a third by update_cpap.
C24_Witness ==
    /\ last_call # <<>>
    /\ last_call.path = "update_cpap"
    /\ last_call.status = 200
    /\ \E m \in DOMAIN db :
          /\ db[m].room = last_call.room
          /\ Len(db[m].data) = 3
          /\ db[m].data[3].cpap_pressure = last_call.in_data[1].num
          /\ db[m].data[3].cpap_pressure # db[m].data[2].cpap_pressure
          /\ db[m].data[3].breathing_rate = db[m].data[2].breathing_rate


\* C25: after any sequence of upload_patient and update_cpap requests every
\* stored CPAP entry has an integer cpap_pressure between 4 and 25
\* inclusive.
C25_StoredPressuresInRange ==
    \A m \in DOMAIN db : \A k \in 1..Len(db[m].data) :
        /\ db[m].data[k].cpap_pressure \in Int
        /\ 4 <= db[m].data[k].cpap_pressure
        /\ db[m].data[k].cpap_pressure <= 25

\* Entries of both routes are stored: uploaded ones and, after requests
\* with out-of-range pressures were answered, one written by update_cpap
\* at the upper limit.
C25_Witness ==
    /\ clock = MaxCalls
    /\ \E m \in DOMAIN db :
          /\ Len(db[m].data) = 3
          /\ db[m].data[1].cpap_pressure = 12
          /\ db[m].data[3].cpap_pressure = 25
          /\ db[m].data[3].timestamp = MaxCalls - 1


UploadStep ==
    /\ clock' = clock + 1
    /\ last_call'.path \in {"rejected", "update", "create"}

\* C26: a POST /upload_patient answered with an error status leaves the
\* stored patients exactly as before.
C26_FailedUploadChangesNothing ==
    [][(UploadStep /\ UploadStatus(last_call') # 200) => db' = db]_vars

\* C28: after a successful upload_patient with MRN m and room r the stored
\* patient m has room r, also when m was stored with another room.
C28_UploadedPatientHasRequestedRoom ==
    (/\ last_call # <<>>
     /\ last_call.path \in {"update", "create"}
     /\ UploadStatus(last_call) = 200) =>
        /\ last_call.in_data.mrn[1].num \in DOMAIN db
        /\ db[last_call.in_data.mrn[1].num].room = last_call.in_data.room[1].num


(***************************************************************************)
(* Specification SpecRace: two POST /upload_patient requests handled by    *)
(* two threads of the server.  Each database call of                       *)
(* add_patient_to_database (src/server.py:194-220) is one step; the        *)
(* document a thread has read stays in its local variable.                 *)
(***************************************************************************)
RaceRoom == PyInt(7)

\* The requests: the first for MRN 123, the second for MRN 13 or 123, both
\* for the same room.
RaceRequests(mrns) ==
    {r \in DbRequests :
        /\ r.mrn[1].num \in mrns
        /\ r.room = <<RaceRoom>>
        /\ r.name # <<PyStr("Sofia")>>
        /\ r.data \in {<<>>, <<PyList(<<E_12, E_13>>)>>}}

\* The collection before the requests: empty, or one other patient in the
\* room.
RaceStores ==
    {<<>>, Save(<<>>, 99, [name |-> <<"Chloe">>, room |-> RaceRoom.num, data |-> <<>>])}

Handler(dict) ==
    [pc |-> "lookup", in_data |-> dict, patient |-> <<>>, existing_patient |-> <<>>]

InitRace ==
    /\ db \in RaceStores
    /\ handlers \in {<<Handler(r1), Handler(r2)>> :
                        r1 \in RaceRequests({123}), r2 \in RaceRequests({13, 123})}
    /\ last_call = <<>> /\ clock = 0
    /\ RowIdle /\ FlowIdle /\ BreathIdle /\ ApneaIdle /\ MetricsIdle /\ ArtifactIdle
    /\ AdcIdle /\ ValidateIdle /\ StationIdle

RaceUnchanged ==
    UNCHANGED <<rowVars, flowVars, breathVars, apneaVars, metricsVars,
                artifactVars, adc_calls, validateVars, stationVars,
                last_call, clock>>

\* patient = Patient.objects.raw({"_id": in_data["mrn"]}).first()
Lookup(h) ==
    /\ handlers[h].pc = "lookup"
    /\ LET mrn == handlers[h].in_data.mrn[1].num
       IN handlers' = [handlers EXCEPT
                         ![h].pc = IF mrn \in DOMAIN db THEN "update" ELSE "find",
                         ![h].patient = IF mrn \in DOMAIN db THEN <<db[mrn]>>
                                        ELSE <<>>]
    /\ db' = db
    /\ RaceUnchanged

\* Stored MRN: the document read is changed and saved.
SaveUpdate(h) ==
    /\ handlers[h].pc = "update"
    /\ \E made \in {CreateEntries(handlers[h].in_data, clock)} :
          db' = IF made.raised # <<>> THEN db
                ELSE Save(db, handlers[h].in_data.mrn[1].num,
                          UpdatedPatient(handlers[h].patient[1],
                                         handlers[h].in_data, made.value[1]))
    /\ handlers' = [handlers EXCEPT ![h].pc = "done"]
    /\ RaceUnchanged

\* existing_patient = Patient.objects.raw({"room": in_data["room"]}).first()
FindOccupant(h) ==
    /\ handlers[h].pc = "find"
    /\ \E found \in (IF Occupants(db, handlers[h].in_data.room[1].num) = {}
                     THEN {<<>>}
                     ELSE {<<m>> : m \in Occupants(db, handlers[h].in_data.room[1].num)}) :
          handlers' = [handlers EXCEPT
                         ![h].existing_patient = found,
                         ![h].pc = IF found # <<>>
                                      /\ Evicted(handlers[h].in_data.mrn[1].num,
                                                 found[1]) # {}
                                   THEN "delete" ELSE "save"]
    /\ db' = db
    /\ RaceUnchanged

\* existing_patient.delete()
DeleteOccupant(h) ==
    /\ handlers[h].pc = "delete"
    /\ db' = Without(db, {handlers[h].existing_patient[1]})
    /\ handlers' = [handlers EXCEPT ![h].pc = "save"]
    /\ RaceUnchanged

\* new_patient = create_new_patient(in_data); new_patient.save()
SaveNew(h) ==
    /\ handlers[h].pc = "save"
    /\ \E made \in {CreateEntries(handlers[h].in_data, clock)} :
          db' = IF made.raised # <<>> THEN db
                ELSE Save(db, handlers[h].in_data.mrn[1].num,
                          NewPatient(handlers[h].in_data, made.value[1]))
    /\ handlers' = [handlers EXCEPT ![h].pc = "done"]
    /\ RaceUnchanged

NextRace ==
    \E h \in {1, 2} :
        \/ Lookup(h)
        \/ SaveUpdate(h)
        \/ FindOccupant(h)
        \/ DeleteOccupant(h)
        \/ SaveNew(h)

SpecRace == InitRace /\ [][NextRace]_vars

BothFinished == handlers # <<>> /\ \A h \in {1, 2} : handlers[h].pc = "done"

DifferentMrns == handlers[1].in_data.mrn # handlers[2].in_data.mrn

\* C27: when two upload_patient requests for different new MRNs and the
\* same room are handled concurrently, at most one patient is stored for
\* that room once both have finished, in every interleaving.
C27_ConcurrentUploadsOnePerRoom ==
    (BothFinished /\ DifferentMrns) =>
        Cardinality(Occupants(db, RaceRoom.num)) <= 1

=============================================================================
